---- MODULE Spec2Model ----
(***************************************************************************)
(* Hybrid retrieval engine of the TNVED code bot: utils/predictor.py,      *)
(* utils/category_filter.py, utils/db_search.py, utils/text_processing.py. *)
(*                                                                         *)
(* Texts are sequences of tokens: a word of the vocabulary or SP, one      *)
(* white-space character.  Codes are sequences of one-character strings.   *)
(* Scores are integers in units of 1/10000 (0.55 is 5500).                 *)
(***************************************************************************)
EXTENDS Integers, Sequences, FiniteSets, TLC

\* ------------------------------------------------------------------------
\* Bounds of the model
\* ------------------------------------------------------------------------
MaxFilterLen == 6
MaxCalls == 2
MaxFaults == 2
MaxConcurrentCalls == 2
MaxRepeatCalls == 3
MaxCacheKeys == 203
ClockStep == 450
MaxClock == 1350
MaxExpandCalls == 1

\* ------------------------------------------------------------------------
\* Sequence helpers
\* ------------------------------------------------------------------------
None == "None"

\* an optional value: Nothing, or Some(x) with x = v[1]
Nothing == <<>>

Some(x) == <<x>>

Min(a, b) == IF a < b THEN a ELSE b

Max(a, b) == IF a > b THEN a ELSE b

Range(s) == {s[i] : i \in 1..Len(s)}

StartsWith(s, p) == Len(s) >= Len(p) /\ SubSeq(s, 1, Len(p)) = p

Take(s, n) == SubSeq(s, 1, Min(n, Len(s)))

\* ------------------------------------------------------------------------
\* Vocabulary (transliterated) and the string functions of Python on it
\* ------------------------------------------------------------------------
SP == " "

Words == {"pomidor", "pomidory", "POMIDOR", "tomaty", "svezhie", "ogurtsy",
          "steklo", "listovoe", "polimer", "stalj", "men", "xyz", "gost",
          "ogurets", "kornishon", "vinograd", "izyum", "gipsokarton",
          "STEKLO", "hlopok", "fanera", "eda", "sreda",
          "0702000000", "0000720810"}

\* the words that are strings of ten digits
CodeWords == {"0702000000", "0000720810"}

\* the characters of a word of ten digits
CodeOf(w) ==
  CASE w = "0702000000" -> <<"0", "7", "0", "2", "0", "0", "0", "0", "0", "0">>
    [] w = "0000720810" -> <<"0", "0", "0", "0", "7", "2", "0", "8", "1", "0">>
    [] OTHER -> <<>>

\* text.isdigit() and len(text) == 10
IsTenDigits(t) == Len(t) = 1 /\ t[1] \in CodeWords

\* str.lower() of one word
LowerWord(w) ==
  CASE w = "POMIDOR" -> "pomidor"
    [] w = "STEKLO" -> "steklo"
    [] OTHER -> w

\* the keyword strings that occur as character substrings of a (lower-case) word
Sub(w) ==
  CASE w = "pomidor"  -> {"pomidor"}
    [] w = "pomidory" -> {"pomidor", "pomidory"}
    [] w = "tomaty"   -> {"tomat", "tomaty"}
    [] w = "svezhie"  -> {"svezh", "svezhie"}
    [] w = "ogurtsy"  -> {"ogurts", "ogurtsy"}
    [] w = "steklo"   -> {"steklo"}
    [] w = "sreda"    -> {"sreda", "eda"}
    [] w = "listovoe" -> {"listov", "listovoe"}
    [] w = "polimer"  -> {"polimer"}
    [] w = "stalj"    -> {"stal", "stalj"}
    [] OTHER          -> {w}

\* number of characters of a word
WordLen(w) ==
  CASE w \in CodeWords -> 10
    [] w = "gipsokarton" -> 11
    [] w = "kornishon" -> 9
    [] w \in {"pomidory", "listovoe", "vinograd"} -> 8
    [] w \in {"pomidor", "POMIDOR", "polimer", "svezhie", "ogurtsy"} -> 7
    [] w \in {"tomaty", "steklo", "STEKLO", "ogurets", "listov", "hlopok", "fanera"} -> 6
    [] w \in {"stalj", "tomat", "stekl", "svezh", "izyum", "sreda"} -> 5
    [] w \in {"stal", "gost"} -> 4
    [] w \in {"xyz", "men", "eda"} -> 3
    [] OTHER -> 1

\* str.lower()
Lower(t) == [i \in 1..Len(t) |-> LowerWord(t[i])]

RECURSIVE LStrip(_)
LStrip(t) == IF t # <<>> /\ Head(t) = SP THEN LStrip(Tail(t)) ELSE t

RECURSIVE RStrip(_)
RStrip(t) == IF t # <<>> /\ t[Len(t)] = SP THEN RStrip(SubSeq(t, 1, Len(t) - 1)) ELSE t

\* str.strip()
Strip(t) == RStrip(LStrip(t))

RECURSIVE Split(_)
\* str.split(): the words of a text
Split(t) ==
  IF t = <<>> THEN <<>>
  ELSE IF Head(t) = SP THEN Split(Tail(t)) ELSE <<Head(t)>> \o Split(Tail(t))

RECURSIVE Join(_)
\* ' '.join(words)
Join(ws) ==
  IF ws = <<>> THEN <<>>
  ELSE IF Len(ws) = 1 THEN ws ELSE <<Head(ws), SP>> \o Join(Tail(ws))

RECURSIVE StrLen(_)
\* len(text) in characters
StrLen(t) == IF t = <<>> THEN 0 ELSE WordLen(Head(t)) + StrLen(Tail(t))

\* keyword in text, for a one-word keyword
KwIn(k, t) == \E i \in 1..Len(t) : t[i] # SP /\ k \in Sub(t[i])

\* ------------------------------------------------------------------------
\* utils/category_filter.py
\* ------------------------------------------------------------------------
CategoryOrder == <<"glass", "metal", "plastic", "textile", "wood", "food">>

PRODUCT_CATEGORIES ==
  [glass |->
     [keywords |-> {"steklo", "steklyann", "glass", "stekol", "stekla", "listovoe",
                    "polirovannoe", "okrashennoe", "tolshchinoy"},
      tnved_codes |-> {<<"7", "0">>},
      exclude_codes |-> {<<"3", "9">>, <<"7", "2">>, <<"7", "3">>, <<"7", "6">>, <<"7", "8">>,
                         <<"7", "9">>, <<"8", "0">>, <<"8", "1">>, <<"8", "2">>, <<"8", "3">>},
      description_must_contain |-> {"steklo", "glass", "steklyann"}],
   metal |->
     [keywords |-> {"metal", "stalj", "zhelezo", "profilj", "steel", "iron"},
      tnved_codes |-> {<<"7", "2">>, <<"7", "3">>, <<"7", "6">>, <<"7", "8">>, <<"7", "9">>,
                       <<"8", "0">>, <<"8", "1">>, <<"8", "2">>, <<"8", "3">>},
      exclude_codes |-> {<<"3", "9">>, <<"7", "0">>},
      description_must_contain |-> {"metal", "stalj", "zhelezo", "steel", "iron"}],
   plastic |->
     [keywords |-> {"plastik", "polimer", "polietilen", "polipropilen", "plastmass",
                    "poliamid", "pvh"},
      tnved_codes |-> {<<"3", "9">>},
      exclude_codes |-> {<<"7", "0">>, <<"7", "2">>, <<"7", "3">>},
      description_must_contain |-> {"plastik", "polimer", "polietilen", "polipropilen",
                                    "plastmass", "poliamid", "pvh"}],
   textile |->
     [keywords |-> {"tkanj", "tekstilj", "hlopok", "sherstj", "fabric", "textile"},
      tnved_codes |-> {<<"5", "0">>, <<"5", "1">>, <<"5", "2">>, <<"5", "3">>, <<"5", "4">>,
                       <<"5", "5">>, <<"5", "6">>, <<"5", "7">>, <<"5", "8">>, <<"5", "9">>,
                       <<"6", "0">>, <<"6", "1">>, <<"6", "2">>, <<"6", "3">>},
      exclude_codes |-> {<<"3", "9">>, <<"7", "0">>, <<"7", "2">>, <<"7", "3">>},
      description_must_contain |-> {"tkanj", "tekstilj", "hlopok", "sherstj", "fabric",
                                    "textile"}],
   wood |->
     [keywords |-> {"derev", "dreves", "fanera", "wood", "timber", "lumber"},
      tnved_codes |-> {<<"4", "4">>},
      exclude_codes |-> {<<"3", "9">>, <<"7", "0">>, <<"7", "2">>, <<"7", "3">>},
      description_must_contain |-> {"derev", "dreves", "fanera", "wood", "timber", "lumber"}],
   food |->
     [keywords |-> {"pishchev", "produkt", "eda", "food", "edible"},
      tnved_codes |-> {<<"0", "1">>, <<"0", "2">>, <<"0", "3">>, <<"0", "4">>, <<"0", "5">>,
                       <<"0", "6">>, <<"0", "7">>, <<"0", "8">>, <<"0", "9">>, <<"1", "0">>,
                       <<"1", "1">>, <<"1", "2">>, <<"1", "3">>, <<"1", "4">>, <<"1", "5">>,
                       <<"1", "6">>, <<"1", "7">>, <<"1", "8">>, <<"1", "9">>, <<"2", "0">>,
                       <<"2", "1">>, <<"2", "2">>, <<"2", "3">>, <<"2", "4">>},
      exclude_codes |-> {<<"3", "9">>, <<"7", "0">>, <<"7", "2">>, <<"7", "3">>},
      description_must_contain |-> {"pishchev", "produkt", "eda", "food", "edible"}]]

RECURSIVE DetectFrom(_, _)
DetectFrom(query_lower, i) ==
  IF i > Len(CategoryOrder) THEN None
  ELSE IF \E k \in PRODUCT_CATEGORIES[CategoryOrder[i]].keywords : KwIn(k, query_lower)
       THEN CategoryOrder[i]
       ELSE DetectFrom(query_lower, i + 1)

\* keywords compared with the query as typed
DetectCaseSensitive(query) == DetectFrom(query, 1)

detect_query_category(query) == DetectFrom(Lower(query), 1)

\* the strict test of one result (lines 88-119)
StrictKeep(result, category) ==
  LET config == PRODUCT_CATEGORIES[category]
      description == Lower(result.description)
      code_allowed == \E p \in config.tnved_codes : StartsWith(result.code, p)
      code_excluded == \E p \in config.exclude_codes : StartsWith(result.code, p)
      desc_valid == \E k \in config.description_must_contain : KwIn(k, description)
  IN code_allowed /\ ~code_excluded /\ desc_valid

\* the relaxed test of one rejected result (lines 126-150)
ShouldExclude(result, category) ==
  LET code == result.code
      description == Lower(result.description)
  IN CASE category = "glass" ->
            \/ /\ StartsWith(code, <<"3", "9">>)
               /\ \/ KwIn("polimer", description) \/ KwIn("plastik", description)
                  \/ KwIn("poliamid", description) \/ KwIn("silikon", description)
            \/ StartsWith(code, <<"4", "7">>) /\ KwIn("dreves", description)
            \/ StartsWith(code, <<"4", "8">>) /\ KwIn("bumag", description)
            \/ StartsWith(code, <<"2", "5">>) /\ KwIn("grafit", description)
       [] category = "metal" ->
            \/ /\ StartsWith(code, <<"3", "9">>)
               /\ (KwIn("polimer", description) \/ KwIn("plastik", description))
            \/ StartsWith(code, <<"4", "7">>)
            \/ StartsWith(code, <<"4", "8">>)
       [] OTHER -> FALSE

RECURSIVE StrictPass(_, _)
StrictPass(results, category) ==
  IF results = <<>> THEN <<>>
  ELSE (IF StrictKeep(Head(results), category) THEN <<Head(results)>> ELSE <<>>)
       \o StrictPass(Tail(results), category)

RECURSIVE StrictRejected(_, _)
StrictRejected(results, category) ==
  IF results = <<>> THEN <<>>
  ELSE (IF StrictKeep(Head(results), category) THEN <<>> ELSE <<Head(results)>>)
       \o StrictRejected(Tail(results), category)

\* the rejected results that are not excluded, last one first
RelaxedLastFirst(rejected, category, acc) ==
  LET kept == SelectSeq(rejected, LAMBDA r : ~ShouldExclude(r, category))
  IN [i \in 1..Len(kept) |-> kept[Len(kept) + 1 - i]]

RECURSIVE RelaxedPass(_, _, _)
\* the loop of lines 126-158; acc is filtered_results so far
RelaxedPass(rejected, category, acc) ==
  IF rejected = <<>> THEN acc
  ELSE LET acc2 == IF ShouldExclude(Head(rejected), category) THEN acc
                   ELSE Append(acc, Head(rejected))
       IN IF Len(acc2) >= 5 THEN acc2 ELSE RelaxedPass(Tail(rejected), category, acc2)

\* lines 68-161: the filter without the last resort of lines 162-165
filter_without_last_resort(results, query) ==
  IF results = <<>> THEN results
  ELSE LET query_category == detect_query_category(query) IN
       IF query_category = None THEN results
       ELSE LET filtered_results == StrictPass(results, query_category)
                rejected_results == StrictRejected(results, query_category)
            IN IF filtered_results = <<>> /\ rejected_results # <<>>
               THEN RelaxedPass(rejected_results, query_category, <<>>)
               ELSE filtered_results

filter_results_by_category(results, query) ==
  IF results = <<>> THEN results
  ELSE LET query_category == detect_query_category(query) IN
       IF query_category = None THEN results
       ELSE LET filtered_results == StrictPass(results, query_category)
                rejected_results == StrictRejected(results, query_category)
            IN IF filtered_results = <<>> /\ rejected_results # <<>>
               THEN LET relaxed == RelaxedPass(rejected_results, query_category, <<>>)
                    IN IF relaxed # <<>> THEN relaxed ELSE Take(results, 3)
               ELSE filtered_results

\* ------------------------------------------------------------------------
\* utils/text_processing.py
\* ------------------------------------------------------------------------
\* WORD_VARIATIONS / VARIATION_TO_BASE restricted to the vocabulary
VARIATION_TO_BASE(w) ==
  CASE w \in {"pomidor", "pomidory"} -> "pomidor"
    [] w \in {"ogurets", "ogurtsy"} -> "ogurets"
    [] OTHER -> None

\* SnowballStemmer('russian').stem on the vocabulary
SnowballStem(w) ==
  CASE w = "tomaty"   -> "tomat"
    [] w = "svezhie"  -> "svezh"
    [] w = "steklo"   -> "stekl"
    [] w = "listovoe" -> "listov"
    [] w = "stalj"    -> "stal"
    [] w = "pomidory" -> "pomidor"
    [] w = "ogurtsy"  -> "ogurts"
    [] OTHER          -> w

normalize_text(text) == Join(Split(Lower(text)))

LemmaOf(token) ==
  IF VARIATION_TO_BASE(token) # None THEN VARIATION_TO_BASE(token)
  ELSE IF VARIATION_TO_BASE(SnowballStem(token)) # None
       THEN VARIATION_TO_BASE(SnowballStem(token))
       ELSE SnowballStem(token)

lemmatize_text(text) ==
  LET tokens == Split(Lower(text))
  IN Join([i \in 1..Len(tokens) |-> LemmaOf(tokens[i])])

contains_valid_word(text) ==
  LET words == Split(normalize_text(text))
  IN \E i \in 1..Len(words) : VARIATION_TO_BASE(words[i]) # None \/ WordLen(words[i]) > 1

\* re.sub(r'\s+', ' ', description) and strip; the vocabulary has no special characters
clean_description_for_output(description) ==
  LET RECURSIVE Collapse(_)
      Collapse(t) ==
        IF Len(t) < 2 THEN t
        ELSE IF t[1] = SP /\ t[2] = SP THEN Collapse(Tail(t))
             ELSE <<Head(t)>> \o Collapse(Tail(t))
  IN Strip(Collapse(description))

\* ------------------------------------------------------------------------
\* utils/predictor.py: query expansion and stop words
\* ------------------------------------------------------------------------
STOPWORDS ==
  [ru |-> {"i", "v", "vo", "ne", "chto", "on", "na", "ya", "s", "so", "kak", "a", "to", "vse",
           "da", "po", "iz", "ili"},
   uz |-> {"va", "yoki", "lekin", "agar", "chunki", "uchun", "bilan", "da", "ham", "esa",
           "bu", "u", "shu", "ana", "mana", "ular", "biz", "siz", "men", "sen"},
   en |-> {"the", "a", "an", "and", "or", "but", "in", "on", "at", "to", "for", "of",
           "with", "by", "from", "up", "about", "into", "then"}]

Langs == {"ru", "uz"}

RECURSIVE FilterWords(_, _)
FilterWords(ws, stop) ==
  IF ws = <<>> THEN <<>>
  ELSE (IF Head(ws) \notin stop /\ WordLen(Head(ws)) > 1 THEN <<Head(ws)>> ELSE <<>>)
       \o FilterWords(Tail(ws), stop)

remove_stopwords(text, lang) ==
  LET stopwords == IF lang \in DOMAIN STOPWORDS THEN STOPWORDS[lang] ELSE STOPWORDS["ru"]
  IN Join(FilterWords(Split(Lower(text)), stopwords))

\* one-word administrative terms of expand_query_with_corrections
administrative_terms == {"gost", "klassifikatsiya", "import", "eksport", "vvoz", "vyvoz"}

\* product_synonyms on the words of the vocabulary
product_synonyms(w) ==
  CASE w \in {"pomidory", "pomidor"} -> "tomaty"
    [] w = "kartoshka" -> "kartofelj"
    [] w = "morkovka" -> "morkovj"
    [] w = "ogurchiki" -> "ogurtsy"
    [] OTHER -> w

product_indicators == {"tomaty", "pomidory", "kartofelj", "kapusta", "luk", "morkovj",
                       "ogurtsy", "svekla", "yabloki", "grushi", "vinograd", "izyum",
                       "banany", "apeljsiny", "limony", "mandariny", "oreh", "arahis"}

descriptor_list == {"svezhiy", "svezhie", "sushenyy", "sushenye", "ohlazhdennyy",
                    "ohlazhdennye"}

RECURSIVE SelectWords(_, _)
\* the words of ws that are priority words (kind 1) or descriptor words (kind 2)
SelectWords(ws, kind) ==
  IF ws = <<>> THEN <<>>
  ELSE LET w == Head(ws)
           prio == Sub(w) \cap product_indicators # {}
           keep == IF kind = 1 THEN prio ELSE ~prio /\ w \in descriptor_list
       IN (IF keep THEN <<w>> ELSE <<>>) \o SelectWords(Tail(ws), kind)

RECURSIVE Dedupe(_, _)
\* lines 188-194: keep the first occurrence of every variant longer than one character
Dedupe(qs, seen) ==
  IF qs = <<>> THEN <<>>
  ELSE LET q == Head(qs)
       IN IF q # <<>> /\ q \notin seen /\ StrLen(Strip(q)) > 1
          THEN <<Strip(q)>> \o Dedupe(Tail(qs), seen \cup {q})
          ELSE Dedupe(Tail(qs), seen)

\* lines 109-153: the query without administrative terms, synonyms replaced
NormalizedQuery(query) ==
  LET query_clean == Lower(Strip(query))
      removed == [i \in 1..Len(query_clean) |->
                    IF query_clean[i] \in administrative_terms THEN SP ELSE query_clean[i]]
      cleaned_query == Join(Split(removed))
  IN [i \in 1..Len(cleaned_query) |->
        IF cleaned_query[i] = SP THEN SP ELSE product_synonyms(cleaned_query[i])]

\* lines 156-178: the product words of the normalized query, then its descriptors
FocusedQuery(query) ==
  LET words == Split(NormalizedQuery(query))
  IN Join(SelectWords(words, 1) \o SelectWords(words, 2))

\* an expansion that lists the query itself first
OriginalFirst(query) ==
  IF NormalizedQuery(query) # Lower(Strip(query))
  THEN <<Lower(Strip(query)), NormalizedQuery(query)>>
  ELSE <<Lower(Strip(query))>>

expand_query_with_corrections(query) ==
  IF query = <<>> \/ StrLen(Strip(query)) < 2 THEN <<query>>
  ELSE LET query_clean == Lower(Strip(query))
           removed == [i \in 1..Len(query_clean) |->
                         IF query_clean[i] \in administrative_terms THEN SP
                         ELSE query_clean[i]]
           cleaned_query == Join(Split(removed))
           normalized_query == [i \in 1..Len(cleaned_query) |->
                                  IF cleaned_query[i] = SP THEN SP
                                  ELSE product_synonyms(cleaned_query[i])]
           words == Split(normalized_query)
           priority_words == SelectWords(words, 1)
           descriptor_words == SelectWords(words, 2)
           focused_query == Join(priority_words \o descriptor_words)
           e1 == IF priority_words # <<>> /\ focused_query # normalized_query
                 THEN <<focused_query>> ELSE <<>>
           e2 == IF normalized_query # <<>> /\ normalized_query # query_clean
                 THEN <<normalized_query>> ELSE <<>>
           result == Dedupe(e1 \o e2 \o <<query_clean>>, {})
       IN IF result # <<>> THEN result ELSE <<query>>

\* ------------------------------------------------------------------------
\* Libraries the engine calls, on this vocabulary
\* ------------------------------------------------------------------------
\* a in b for two texts (the vocabulary has prefix relations only between words)
TextIn(a, b) ==
  \/ a = <<>>
  \/ \E i \in 1..Len(b) :
       /\ i + Len(a) - 1 <= Len(b)
       /\ \A j \in 1..Len(a) :
            IF j = Len(a) THEN a[j] # SP /\ b[i + j - 1] # SP /\ a[j] \in Sub(b[i + j - 1])
            ELSE a[j] = b[i + j - 1]

\* b.find(a) in characters, for TextIn(a, b)
FindPos(a, b) ==
  IF a = <<>> THEN 0
  ELSE LET i == CHOOSE k \in 1..Len(b) :
                  /\ k + Len(a) - 1 <= Len(b)
                  /\ \A j \in 1..Len(a) :
                       IF j = Len(a) THEN a[j] # SP /\ b[k + j - 1] # SP
                                          /\ a[j] \in Sub(b[k + j - 1])
                       ELSE a[j] = b[k + j - 1]
                  /\ \A k2 \in 1..(k - 1) :
                       ~ (/\ k2 + Len(a) - 1 <= Len(b)
                          /\ \A j \in 1..Len(a) :
                               IF j = Len(a) THEN a[j] # SP /\ b[k2 + j - 1] # SP
                                                  /\ a[j] \in Sub(b[k2 + j - 1])
                               ELSE a[j] = b[k2 + j - 1])
       IN StrLen(SubSeq(b, 1, i - 1))

\* fuzzywuzzy: max of ratio, partial_ratio, token_sort_ratio, token_set_ratio, in percent
BestFuzzy(query_norm, desc_norm) ==
  LET qw == Range(Split(query_norm))
      dw == Range(Split(desc_norm))
  IN IF query_norm = <<>> \/ desc_norm = <<>> THEN 0
     ELSE IF qw \subseteq dw \/ TextIn(query_norm, desc_norm) THEN 100
     ELSE IF qw \cap dw # {} THEN 60
     ELSE 30

EmbeddingModels == {"sharp", "flat"}

\* inner product of the unit embeddings of two texts under an embedding model
SemanticSim(embedding, query_text, desc_text) ==
  LET shared == Range(Split(query_text)) \cap Range(Split(desc_text)) # {}
  IN CASE embedding = "sharp" -> IF shared THEN 9500 ELSE 500
       [] embedding = "flat"  -> 6000
       [] OTHER -> 0

\* sklearn cosine similarity of the TF-IDF vectors (squared, binary term weights)
TfidfSim(query_text, desc_text) ==
  LET q == Range(Split(query_text))
      d == Range(Split(desc_text))
      n == Cardinality(q \cap d)
  IN IF q = {} \/ d = {} THEN 0
     ELSE (10000 * n * n) \div (Cardinality(q) * Cardinality(d))

\* ------------------------------------------------------------------------
\* utils/predictor.py: calculate_enhanced_relevance_score
\* ------------------------------------------------------------------------
SEMANTIC_THRESHOLD == 4500
SCORE_THRESHOLD_BEST_MATCH == 5500
SCORE_THRESHOLD_TOP_SIMILAR == 3000
MIN_RELEVANCE_FOR_ANY_MATCH == 1000
TOP_K_BEST_MATCH_SIMILAR == 4
TOP_K_NOT_FOUND_SUGGESTIONS == 6

food_keywords == {"vinograd", "izyum", "oreh", "arahis", "nut", "sushen", "svezh", "frukt",
                  "ovoshch", "yagod"}
meat_keywords == {"myaso", "svin", "govyad", "ptits", "zhir", "salo", "bekon"}
vegetable_keywords == {"tomat", "pomidor", "kartofel", "kapust", "luk", "morkov", "ogurts",
                       "svekl", "ovoshch"}
fruit_keywords == {"vinograd", "izyum", "yablok", "grush", "banan", "apeljsin", "limon",
                   "mandarin", "frukt"}
metal_keywords == {"metal", "stal", "profil", "zhelezo", "alyumin", "otsinkov", "gipsokarton",
                   "stroiteljnyy", "konstruktsi", "balka", "ugolok", "shveller", "armatur"}
construction_keywords == {"gipsokarton", "stroiteljnyy", "stroiteljn", "konstruktsi", "karkas",
                          "montazh", "profilj", "profili"}
textile_keywords == {"tkan", "hlopok", "sherst", "sin", "volokn", "pryazh"}

food_codes == {<<"0", "8">>, <<"0", "7">>, <<"0", "4">>, <<"1", "2">>, <<"1", "5">>,
               <<"1", "6">>, <<"1", "7">>, <<"1", "8">>, <<"1", "9">>, <<"2", "0">>,
               <<"2", "1">>, <<"2", "2">>, <<"2", "3">>, <<"2", "4">>}
vegetable_codes == {<<"0", "7">>}
fruit_codes == {<<"0", "8">>}
meat_codes == {<<"0", "2">>, <<"0", "3">>, <<"1", "6">>}
metal_codes == {<<"7", "2">>, <<"7", "3">>, <<"7", "4">>, <<"7", "5">>, <<"7", "6">>,
                <<"7", "8">>, <<"7", "9">>, <<"8", "0">>, <<"8", "1">>}
construction_codes == {<<"7", "2">>, <<"7", "3">>}
textile_codes == {<<"5", "0">>, <<"5", "1">>, <<"5", "2">>, <<"5", "3">>, <<"5", "4">>,
                  <<"5", "5">>, <<"5", "6">>, <<"5", "7">>, <<"5", "8">>, <<"5", "9">>,
                  <<"6", "0">>, <<"6", "1">>, <<"6", "2">>, <<"6", "3">>}

AnyKw(keywords, text) == \E k \in keywords : KwIn(k, text)

AnyPrefix(code_prefix, prefixes) == \E p \in prefixes : StartsWith(code_prefix, p)

\* lines 324-376: the generic category rules, as [boost, penalty]
GenericCategory(query_lower, code_prefix) ==
  LET is_food == AnyKw(food_keywords, query_lower)
      is_meat == AnyKw(meat_keywords, query_lower)
      is_veg == AnyKw(vegetable_keywords, query_lower)
      is_fruit == AnyKw(fruit_keywords, query_lower)
      is_metal == AnyKw(metal_keywords, query_lower)
      is_constr == AnyKw(construction_keywords, query_lower)
      is_textile == AnyKw(textile_keywords, query_lower)
      bp(b, p) == [boost |-> b, penalty |-> p]
  IN CASE is_veg ->
            (IF AnyPrefix(code_prefix, vegetable_codes) THEN bp(4000, 0)
             ELSE IF AnyPrefix(code_prefix, fruit_codes) THEN bp(0, 6000)
             ELSE IF AnyPrefix(code_prefix, meat_codes) THEN bp(0, 7000)
             ELSE bp(0, 0))
       [] ~is_veg /\ is_fruit ->
            (IF AnyPrefix(code_prefix, fruit_codes) THEN bp(4000, 0)
             ELSE IF AnyPrefix(code_prefix, vegetable_codes) THEN bp(0, 3000)
             ELSE IF AnyPrefix(code_prefix, meat_codes) THEN bp(0, 7000)
             ELSE bp(0, 0))
       [] ~is_veg /\ ~is_fruit /\ is_food /\ ~is_meat ->
            (IF AnyPrefix(code_prefix, food_codes) THEN bp(3000, 0)
             ELSE IF AnyPrefix(code_prefix, meat_codes) THEN bp(0, 6000)
             ELSE bp(0, 0))
       [] ~is_veg /\ ~is_fruit /\ ~(is_food /\ ~is_meat) /\ is_meat ->
            (IF AnyPrefix(code_prefix, meat_codes) THEN bp(2500, 0)
             ELSE IF AnyPrefix(code_prefix, food_codes) THEN bp(1000, 0)
             ELSE bp(0, 0))
       [] ~is_veg /\ ~is_fruit /\ ~is_food /\ ~is_meat /\ is_metal ->
            (IF AnyPrefix(code_prefix, metal_codes) THEN bp(2500, 0) ELSE bp(0, 3000))
       [] ~is_veg /\ ~is_fruit /\ ~is_food /\ ~is_meat /\ ~is_metal /\ is_constr ->
            (IF AnyPrefix(code_prefix, construction_codes) THEN bp(2500, 0) ELSE bp(0, 3000))
       [] ~is_veg /\ ~is_fruit /\ ~is_food /\ ~is_meat /\ ~is_metal /\ ~is_constr
          /\ is_textile ->
            (IF AnyPrefix(code_prefix, textile_codes) THEN bp(2500, 0) ELSE bp(0, 3000))
       [] OTHER -> bp(0, 0)

\* One override of lines 378-436: an assignment ("boost", "penalty") or a
\* max(...) update ("boost_max", "penalty_max") of the running adjustment.
Override(kind, value) == [kind |-> kind, value |-> value]

NoOverride == Override("none", 0)

ApplyOverride(adjustment, o) ==
  CASE o.kind = "boost" -> [adjustment EXCEPT !.boost = o.value]
    [] o.kind = "penalty" -> [adjustment EXCEPT !.penalty = o.value]
    [] o.kind = "boost_max" -> [adjustment EXCEPT !.boost = Max(@, o.value)]
    [] o.kind = "penalty_max" -> [adjustment EXCEPT !.penalty = Max(@, o.value)]
    [] OTHER -> adjustment

RECURSIVE ApplyOverrides(_, _)
ApplyOverrides(adjustment, overrides) ==
  IF overrides = <<>> THEN adjustment
  ELSE ApplyOverrides(ApplyOverride(adjustment, Head(overrides)), Tail(overrides))

\* lines 378-436: the specific overrides applied, in source order, on top of
\* the generic rules
SpecificOverrides(query_lower, code_prefix) ==
  LET is_metal == AnyKw(metal_keywords, query_lower)
      is_constr == AnyKw(construction_keywords, query_lower)
      o1 == IF is_constr \/ (is_metal /\ AnyKw({"profil", "gipsokarton", "stroiteljn"}, query_lower))
            THEN (IF AnyPrefix(code_prefix, construction_codes) THEN Override("boost_max", 4000)
                  ELSE IF AnyPrefix(code_prefix, metal_codes) THEN Override("boost_max", 2000)
                  ELSE Override("penalty_max", 5000))
            ELSE NoOverride
      o2 == IF AnyKw({"vinograd", "izyum"}, query_lower)
            THEN (IF StartsWith(code_prefix, <<"0", "8">>) THEN Override("boost", 4000)
                  ELSE IF StartsWith(code_prefix, <<"0", "2">>) THEN Override("penalty", 8000)
                  ELSE NoOverride)
            ELSE NoOverride
      o3 == IF AnyKw({"tomat", "pomidor"}, query_lower)
            THEN (IF StartsWith(code_prefix, <<"0", "7", "0", "2">>) THEN Override("boost", 5000)
                  ELSE IF StartsWith(code_prefix, <<"0", "7", "0", "7">>)
                  THEN Override("penalty", 5000)
                  ELSE IF StartsWith(code_prefix, <<"0", "7">>) THEN Override("boost", 1000)
                  ELSE IF StartsWith(code_prefix, <<"0", "8">>) THEN Override("penalty", 7000)
                  ELSE IF StartsWith(code_prefix, <<"0", "2">>) THEN Override("penalty", 8000)
                  ELSE NoOverride)
            ELSE NoOverride
      o4 == IF AnyKw({"ogurets", "kornishon"}, query_lower)
            THEN (IF StartsWith(code_prefix, <<"0", "7", "0", "7">>) THEN Override("boost", 5000)
                  ELSE IF StartsWith(code_prefix, <<"0", "7", "0", "2">>)
                  THEN Override("penalty", 5000)
                  ELSE IF StartsWith(code_prefix, <<"0", "7">>) THEN Override("boost", 1000)
                  ELSE NoOverride)
            ELSE NoOverride
      o5 == IF KwIn("gipsokarton", query_lower)
               \/ (KwIn("profil", query_lower) /\ KwIn("otsinkov", query_lower))
            THEN (IF StartsWith(code_prefix, <<"7", "2">>) \/ StartsWith(code_prefix, <<"7", "3">>)
                  THEN Override("boost_max", 5000)
                  ELSE IF StartsWith(code_prefix, <<"0", "7">>) THEN Override("penalty_max", 8000)
                  ELSE IF StartsWith(code_prefix, <<"0", "8">>) THEN Override("penalty_max", 8000)
                  ELSE NoOverride)
            ELSE NoOverride
      o6 == IF AnyKw({"vinograd", "izyum", "frukt", "yagod", "oreh"}, query_lower)
               /\ StartsWith(code_prefix, <<"0", "2">>)
            THEN Override("penalty_max", 7000) ELSE NoOverride
      o7 == IF AnyKw({"tomat", "pomidor", "kartofel", "kapust", "ovoshch"}, query_lower)
            THEN (IF StartsWith(code_prefix, <<"0", "8">>) THEN Override("penalty_max", 6000)
                  ELSE IF StartsWith(code_prefix, <<"0", "2">>) THEN Override("penalty_max", 8000)
                  ELSE NoOverride)
            ELSE NoOverride
  IN <<o1, o2, o3, o4, o5, o6, o7>>

\* with the specific overrides left out
GenericOnly(query_lower, code_prefix, generic) == generic

SpecificCategory(query_lower, code_prefix, generic) ==
  ApplyOverrides(generic, SpecificOverrides(query_lower, code_prefix))

product_terms == {"tomat", "pomidor", "ogurets", "kornishon", "kartofel", "kapust", "luk",
                  "morkov", "svekl", "arbuz", "dyn", "yablok", "grush", "vinograd", "izyum",
                  "banan", "apeljsin", "limon", "mandarin", "oreh", "arahis"}

\* the share of the query lemmas found in the description, without the gate
PlainOverlap(query_lemmas_set, desc_lemmas_set) ==
  (Cardinality(query_lemmas_set \cap desc_lemmas_set) * 10000)
    \div Max(Cardinality(query_lemmas_set), 1)

\* lines 461-490
WordOverlapScore(query_lemmas_set, desc_lemmas_set) ==
  LET overlap == query_lemmas_set \cap desc_lemmas_set
      product_overlap == overlap \cap product_terms
      descriptor_overlap == overlap \ product_terms
      query_product_terms == query_lemmas_set \cap product_terms
  IN IF query_product_terms # {}
     THEN (IF product_overlap = {} THEN 0
           ELSE (Cardinality(product_overlap) * 8000) \div Cardinality(query_product_terms)
                + (Cardinality(descriptor_overlap) * 2000)
                  \div Max(Cardinality(query_lemmas_set \ product_terms), 1))
     ELSE (Cardinality(overlap) * 10000) \div Max(Cardinality(query_lemmas_set), 1)

\* lines 497-504
PositionBonus(query_words, desc_words) ==
  LET hit(i) == i <= Len(query_words) /\ query_words[i] \in Range(Take(desc_words, 5))
  IN IF query_words = <<>> \/ desc_words = <<>> THEN 0
     ELSE (IF hit(1) THEN 1000 ELSE 0) + (IF hit(2) THEN 800 ELSE 0)
          + (IF hit(3) THEN 600 ELSE 0)

calculate_enhanced_relevance_score(query_norm, query_lemmas_joined, desc_norm, desc_lemmas_joined, semantic_similarity, query_length, desc_length, product_code) ==
  LET query_lower == Lower(query_norm)
      code_prefix == Take(product_code, 4)
      cat == SpecificCategory(query_lower, code_prefix,
                              GenericCategory(query_lower, code_prefix))
      weight_semantic == IF query_length <= 2 THEN 60 ELSE IF query_length <= 4 THEN 70 ELSE 75
      weight_fuzzy == IF query_length <= 2 THEN 25 ELSE IF query_length <= 4 THEN 15 ELSE 10
      weight_word_overlap == 15
      best_fuzzy == BestFuzzy(query_norm, desc_norm) * 100
      query_lemmas_set == Range(Split(query_lemmas_joined))
      desc_lemmas_set == Range(Split(desc_lemmas_joined))
      word_overlap_score == WordOverlapScore(query_lemmas_set, desc_lemmas_set)
      phrase_bonus == IF StrLen(query_lemmas_joined) > 3
                         /\ TextIn(query_lemmas_joined, desc_lemmas_joined)
                      THEN 2000 ELSE 0
      position_bonus == PositionBonus(Split(query_lemmas_joined), Split(desc_lemmas_joined))
      length_penalty == IF desc_length > 100
                        THEN Min(1000, ((desc_length - 100) * 10000) \div 500) ELSE 0
      combined_score ==
        (Max(0, semantic_similarity) * weight_semantic + best_fuzzy * weight_fuzzy
         + (word_overlap_score + phrase_bonus + position_bonus) * weight_word_overlap) \div 100
        + cat.boost
      \* SEMANTIC_THRESHOLD - 0.35 is 0.10000000000000003 in binary floating point
      low_semantic == IF semantic_similarity <= SEMANTIC_THRESHOLD - 3500 THEN 2500 ELSE 0
      unmatched == Cardinality(query_lemmas_set \ desc_lemmas_set)
      unmatched_penalty ==
        IF Cardinality(query_lemmas_set) > 1 /\ 2 * unmatched > Cardinality(query_lemmas_set)
        THEN (unmatched * 2000) \div Cardinality(query_lemmas_set) ELSE 0
      penalty == length_penalty + cat.penalty + low_semantic + unmatched_penalty
  IN Max(0, Min(combined_score - penalty, 10000))

\* ------------------------------------------------------------------------
\* The classifier repository (table m_classifier_hs1) and utils/db_search.py
\* ------------------------------------------------------------------------
Digit == {"0", "1", "2", "3", "4", "5", "6", "7", "8", "9"}

DigitVal(c) ==
  CASE c = "0" -> 0 [] c = "1" -> 1 [] c = "2" -> 2 [] c = "3" -> 3 [] c = "4" -> 4
    [] c = "5" -> 5 [] c = "6" -> 6 [] c = "7" -> 7 [] c = "8" -> 8 [] c = "9" -> 9
    [] OTHER -> 10

RECURSIVE CodeLess(_, _)
\* string comparison a < b of two codes
CodeLess(a, b) ==
  IF b = <<>> THEN FALSE
  ELSE IF a = <<>> THEN TRUE
  ELSE IF Head(a) # Head(b) THEN DigitVal(Head(a)) < DigitVal(Head(b))
  ELSE CodeLess(Tail(a), Tail(b))

RowTomato == [code |-> <<"0", "7", "0", "2", "0", "0", "0", "0", "0", "0">>,
              description |-> <<"tomaty", SP, "svezhie">>]

RowGlass == [code |-> <<"7", "0", "0", "5", "0", "0", "0", "0", "0", "0">>,
             description |-> <<"steklo", SP, "listovoe">>]

RowPolimer == [code |-> <<"3", "9", "2", "0", "0", "0", "0", "0", "0", "0">>,
               description |-> <<"polimer", SP, "listovoe">>]

RowSteel == [code |-> <<"7", "2", "0", "8", "1", "0">>,
             description |-> <<"stalj", SP, "listovoe">>]

AllRows == {RowTomato, RowGlass, RowSteel}

\* the contents the table can have when the process starts
InitialRepos == {AllRows, {}}

is_valid_hs_code(code) ==
  /\ Len(code) \in {4, 6, 8, 10}
  /\ \A i \in 1..Len(code) : code[i] \in Digit

RECURSIVE SortRows(_, _)
\* the rows of a set in the order of ORDER BY: Less(a, b) is the SQL ordering
SortRows(rows, byLength) ==
  IF rows = {} THEN <<>>
  ELSE LET Less(a, b) ==
             IF byLength /\ StrLen(a.description) # StrLen(b.description)
             THEN StrLen(a.description) < StrLen(b.description)
             ELSE CodeLess(a.code, b.code)
           first == CHOOSE r \in rows : \A o \in rows \ {r} : Less(r, o)
       IN <<first>> \o SortRows(rows \ {first}, byLength)

RECURSIVE ValidRows(_)
ValidRows(rows) ==
  IF rows = <<>> THEN <<>>
  ELSE (IF is_valid_hs_code(Head(rows).code) THEN <<Head(rows)>> ELSE <<>>)
       \o ValidRows(Tail(rows))

\* the lexemes of to_tsvector / plainto_tsquery ('russian')
PgLexemes(text) ==
  {SnowballStem(w) : w \in Range(Split(Lower(text))) \ STOPWORDS["ru"]}

\* LOWER(cs_fullname) LIKE '%' || word || '%'
Like(row, word) == KwIn(word, Lower(row.description))

RECURSIVE PerWordRows(_, _, _, _)
\* lines 120-139: one LIKE query per word, first occurrence of every valid code
PerWordRows(repoRows, words, limit, acc) ==
  IF words = <<>> THEN acc
  ELSE LET word_results == Take(SortRows({r \in repoRows : Like(r, Head(words))}, TRUE), limit)
           fresh == SelectSeq(word_results,
                      LAMBDA r : is_valid_hs_code(r.code)
                                 /\ r.code \notin {acc[i].code : i \in 1..Len(acc)})
       IN PerWordRows(repoRows, Tail(words), limit, acc \o fresh)

\* search_classifier_db lines 26-64 for a query of ten digits: the row of that
\* code, else the rows whose code it is a proper prefix of
CodeRows(repoRows, code, limit) ==
  LET exact_code == ValidRows(Take(SortRows({r \in repoRows : r.code = code}, FALSE), limit))
      prefix_code == Take(SortRows({r \in repoRows : StartsWith(r.code, code) /\ r.code # code},
                                   FALSE), limit)
  IN IF exact_code # <<>> THEN exact_code ELSE ValidRows(prefix_code)

\* search_classifier_db lines 66-146 when no database call raises
TextRows(repoRows, query, limit) ==
  LET query_clean == Lower(Strip(query))
      lex == PgLexemes(query_clean)
      text_results ==
        IF lex = {} THEN <<>>
        ELSE Take(SortRows({r \in repoRows : lex \subseteq PgLexemes(r.description)}, FALSE), limit)
      words == Split(query_clean)
      and_results == Take(SortRows({r \in repoRows : \A i \in 1..Len(words) : Like(r, words[i])},
                                   TRUE), limit)
      or_results == Take(SortRows({r \in repoRows : \E i \in 1..Len(words) : Like(r, words[i])},
                                  TRUE), limit)
      partial_results == IF and_results = <<>> /\ Len(words) > 1 THEN or_results ELSE and_results
  IN IF text_results # <<>> THEN ValidRows(text_results)
     ELSE IF words = <<>> THEN <<>>
     ELSE IF partial_results = <<>> /\ Len(words) > 1
          THEN Take(PerWordRows(repoRows, words, limit, <<>>), limit)
     ELSE ValidRows(partial_results)

\* search_classifier_db when no database call raises
search_classifier_db(repoRows, query, limit) ==
  IF IsTenDigits(Lower(Strip(query)))
     /\ CodeRows(repoRows, CodeOf(Lower(Strip(query))[1]), limit) # <<>>
  THEN CodeRows(repoRows, CodeOf(Lower(Strip(query))[1]), limit)
  ELSE TextRows(repoRows, query, limit)

\* quick_code_lookup: the row of that code, Nothing when absent or not a valid code
quick_code_lookup(repoRows, code) ==
  IF \E r \in repoRows : r.code = code /\ is_valid_hs_code(r.code)
  THEN Some(CHOOSE r \in repoRows : r.code = code)
  ELSE Nothing

\* ------------------------------------------------------------------------
\* utils/predictor.py: EnhancedProductSearchSystem, catalog and indexes
\* ------------------------------------------------------------------------
RECURSIVE zfill(_, _)
zfill(code, width) == IF Len(code) >= width THEN code ELSE zfill(<<"0">> \o code, width)

\* the singleton after __init__
NewPredictor ==
  [initialized |-> FALSE, model |-> None, index |-> Nothing, index_to_data |-> <<>>,
   df_system |-> Nothing, tfidf_vectorizer |-> None, tfidf_matrix |-> Nothing]

EmptyFrame == <<>>

\* _load_data_from_database, lines 634-662: the DataFrame built from the rows fetched
LoadedFrame(repoRows) ==
  LET rows == SortRows({r \in repoRows : Len(r.code) >= 6 /\ StrLen(r.description) > 10}, FALSE)
      data == [i \in 1..Len(rows) |->
                 [code |-> zfill(rows[i].code, 10), description |-> rows[i].description]]
  IN SelectSeq(data, LAMBDA d : Len(d.code) = 10 /\ StrLen(d.description) > 10)

\* the text that is embedded and vectorized for one description
DescClean(description) ==
  remove_stopwords(lemmatize_text(normalize_text(description)), "ru")

\* lines 683-697: index_to_data[idx] is overwritten for every row, never cleared
IndexToData(old, df) ==
  [i \in 1..Max(Len(old), Len(df)) |->
     IF i <= Len(df)
     THEN [code |-> df[i].code, description |-> df[i].description,
           normalized_description |-> normalize_text(df[i].description),
           lemmatized_description |-> DescClean(df[i].description)]
     ELSE old[i]]

\* _build_faiss_index: outcome "ok", "raise" (before self.index is assigned) or
\* "raise_add" (IndexFlatIP assigned, add raised); every exception is swallowed
build_faiss_index(p, outcome) ==
  LET df == p.df_system[1]
      itd == IndexToData(p.index_to_data, df)
  IN IF Len(df) = 0 THEN p
     ELSE CASE outcome = "ok" ->
                 [p EXCEPT !.index_to_data = itd,
                           !.index = Some([i \in 1..Len(df) |-> DescClean(df[i].description)])]
            [] outcome = "raise_add" -> [p EXCEPT !.index_to_data = itd, !.index = Some(<<>>)]
            [] OTHER -> [p EXCEPT !.index_to_data = itd]

\* _build_tfidf_index: the vectorizer is assigned before fit_transform can raise
build_tfidf_index(p, outcome) ==
  LET df == p.df_system[1]
  IN IF Len(df) = 0 THEN p
     ELSE IF outcome = "ok"
     THEN [p EXCEPT !.tfidf_vectorizer = "fitted",
                    !.tfidf_matrix = Some([i \in 1..Len(df) |-> DescClean(df[i].description)])]
     ELSE [p EXCEPT !.tfidf_vectorizer = "unfitted"]

BuildOutcomes == {"ok", "raise", "raise_add"}

\* _async_init from line 605 on: the part that runs without suspension after the load
finish_async_init(p, faiss_outcome, tfidf_outcome) ==
  IF Len(p.df_system[1]) = 0 THEN p
  ELSE [build_tfidf_index(build_faiss_index(p, faiss_outcome), tfidf_outcome)
          EXCEPT !.initialized = TRUE]

\* ------------------------------------------------------------------------
\* Candidates and sorting
\* ------------------------------------------------------------------------
Cand(code, description, score, stype) ==
  [code |-> code, description |-> description, relevance_score |-> score,
   search_type |-> stype, validated |-> "unset", warning |-> "none",
   description_source |-> "none"]

RECURSIVE InsertDesc(_, _)
\* insert pair x = <<key, item>> after every pair whose key is >= x's key
InsertDesc(x, sorted) ==
  IF sorted = <<>> THEN <<x>>
  ELSE IF Head(sorted)[1] >= x[1] THEN <<Head(sorted)>> \o InsertDesc(x, Tail(sorted))
  ELSE <<x>> \o sorted

RECURSIVE SortPairsDesc(_, _)
\* sorted(pairs, key, reverse=True): stable
SortPairsDesc(pairs, acc) ==
  IF pairs = <<>> THEN acc ELSE SortPairsDesc(Tail(pairs), InsertDesc(Head(pairs), acc))

\* the items as they come
Unsorted(items) == items

\* sorted(items, key=relevance_score, reverse=True), line 1109
SortByScore(items) ==
  LET pairs == [i \in 1..Len(items) |-> <<items[i].relevance_score, items[i]>>]
      sorted == SortPairsDesc(pairs, <<>>)
  IN [i \in 1..Len(sorted) |-> sorted[i][2]]

Reverse(s) == [i \in 1..Len(s) |-> s[Len(s) + 1 - i]]

\* ------------------------------------------------------------------------
\* Retrieval
\* ------------------------------------------------------------------------
\* _exact_match_search lines 858-866: the catalog rows whose code is the query
ExactCodeMatches(df, query) ==
  IF IsTenDigits(query)
  THEN LET matches == SelectSeq(df, LAMBDA row : row.code = CodeOf(query[1]))
       IN [i \in 1..Len(matches) |->
             Cand(matches[i].code, matches[i].description, 10000, "exact_code")]
  ELSE <<>>

\* _exact_match_search lines 868-881: the rows whose description holds the query
ExactPhraseMatches(df, query) ==
  LET query_norm == Lower(normalize_text(query))
      hit(i) == TextIn(query_norm, Lower(normalize_text(df[i].description)))
      score(i) ==
        LET desc_norm == Lower(normalize_text(df[i].description))
            position == FindPos(query_norm, desc_norm)
            position_score == 10000 - (position * 3000) \div Max(StrLen(desc_norm), 1)
        IN Min(10000, 9000 + position_score \div 10)
      all == [i \in 1..Len(df) |->
                IF hit(i) THEN <<Cand(df[i].code, df[i].description, score(i), "exact_phrase")>>
                ELSE <<>>]
      RECURSIVE Flat(_)
      Flat(i) == IF i > Len(df) THEN <<>> ELSE all[i] \o Flat(i + 1)
  IN Flat(1)

\* _exact_match_search
exact_match_search(df, query) == ExactCodeMatches(df, query) \o ExactPhraseMatches(df, query)

\* _tfidf_search: pairs <<idx, similarity>>, best first; [] when the index is absent
tfidf_search(p, query, top_k) ==
  IF p.tfidf_vectorizer # "fitted" \/ p.tfidf_matrix = Nothing THEN <<>>
  ELSE LET query_cleaned == remove_stopwords(lemmatize_text(normalize_text(query)), "ru")
           matrix == p.tfidf_matrix[1]
           n == Len(matrix)
           \* argsort ascending, last top_k, reversed
           asc == Reverse(SortPairsDesc([i \in 1..n |->
                            <<TfidfSim(query_cleaned, matrix[n + 1 - i]), n + 1 - i>>], <<>>))
           top == Reverse(SubSeq(asc, Max(1, n - top_k + 1), n))
           kept == SelectSeq(top, LAMBDA x : x[1] > 100)
       IN [i \in 1..Len(kept) |-> <<kept[i][2], kept[i][1]>>]

\* self.index.search(query_embedding, k): pairs <<idx, score>>, best first
faiss_search(embedding, index, query_text, k) ==
  LET sorted == SortPairsDesc([i \in 1..Len(index) |->
                    <<SemanticSim(embedding, query_text, index[i]), i>>], <<>>)
  IN [i \in 1..Min(k, Len(sorted)) |-> <<sorted[i][2], sorted[i][1]>>]

\* the index is assigned
IndexAssigned(p) == p.index # Nothing

\* lines 1022-1023: the semantic index answers a search when it exists and holds
\* vectors (None has no ntotal, a search for k = 0 neighbours is refused)
FaissUsable(p) == p.index # Nothing /\ Len(p.index[1]) > 0

\* ------------------------------------------------------------------------
\* utils/predictor.py: the result cache
\* ------------------------------------------------------------------------
cache_max_size == 200
CleanupInterval == 900
CleanupKeep == 50

\* a key made of the query alone
QueryKey(query, lang) == <<query>>

\* _get_cache_key: the digest of "query:lang"
get_cache_key(query, lang) == <<query, lang>>

CacheKeys(c) == {c[i].key : i \in 1..Len(c)}

CacheGet(c, key) == (CHOOSE i \in 1..Len(c) : c[i].key = key)

\* a trim that keeps the 50 entries at the front of the dict
KeepOldest(c, last, current_time) ==
  IF current_time - last > CleanupInterval
  THEN [cache |-> IF Len(c) > CleanupKeep THEN SubSeq(c, 1, CleanupKeep) ELSE c,
        last |-> current_time]
  ELSE [cache |-> c, last |-> last]

\* cleanup_memory_cache: the cache and _last_cache_cleanup afterwards
cleanup_memory_cache(c, last, current_time) ==
  IF current_time - last > CleanupInterval
  THEN [cache |-> IF Len(c) > CleanupKeep THEN SubSeq(c, Len(c) - CleanupKeep + 1, Len(c)) ELSE c,
        last |-> current_time]
  ELSE [cache |-> c, last |-> last]

\* get_cached_result after the cleanup: the cached response, if any
get_cached_result(c, query, lang) ==
  LET cache_key == get_cache_key(query, lang)
  IN IF cache_key \in CacheKeys(c) THEN Some(c[CacheGet(c, cache_key)].value) ELSE Nothing

\* a store that never removes an entry
StoreWithoutEviction(c, query, lang, result) ==
  LET cache_key == get_cache_key(query, lang)
  IN IF cache_key \in CacheKeys(c)
     THEN [c EXCEPT ![CacheGet(c, cache_key)] = [key |-> cache_key, value |-> result]]
     ELSE Append(c, [key |-> cache_key, value |-> result])

\* cache_result: a dict keeps insertion order, assignment to a present key keeps its place
cache_result(c, query, lang, result) ==
  LET cache_key == get_cache_key(query, lang)
      c1 == IF Len(c) >= cache_max_size THEN Tail(c) ELSE c
  IN IF cache_key \in CacheKeys(c1)
     THEN [c1 EXCEPT ![CacheGet(c1, cache_key)] = [key |-> cache_key, value |-> result]]
     ELSE Append(c1, [key |-> cache_key, value |-> result])

\* ------------------------------------------------------------------------
\* utils/predictor.py: enhanced_predict_code
\* ------------------------------------------------------------------------
Resp(status, best_match, top_similar, confidence, total, query_processed) ==
  [status |-> status, best_match |-> best_match, top_similar |-> top_similar,
   confidence |-> confidence, from_cache |-> FALSE, total_candidates |-> total,
   query_processed |-> query_processed]

SystemErrorResponse(query) == Resp("system_error", <<>>, <<>>, 0, 0, query)

\* a blank query answered like a search that found nothing
BlankNotFound == Resp("not_found", <<>>, <<>>, 0, 0, <<>>)

\* lines 976-983
EmptyQueryResponse == Resp("error", <<>>, <<>>, 0, 0, <<>>)

\* lines 1035-1039: the semantic score of catalog row idx, 0 when the semantic
\* search did not return it
SemanticScoreOf(semantic_results, idx) ==
  IF \E j \in 1..Len(semantic_results) : semantic_results[j][1] = idx
  THEN semantic_results[CHOOSE j \in 1..Len(semantic_results) :
                          semantic_results[j][1] = idx][2]
  ELSE 0

\* lines 1053-1059: the boosts of a candidate both searches returned
BoostedScore(relevance, semantic_score, expanded_query, query_clean) ==
  LET r1 == IF semantic_score > 3000 THEN (relevance * 11) \div 10 ELSE relevance
  IN IF expanded_query # query_clean THEN (r1 * 95) \div 100 ELSE r1

\* lines 1026-1095: the values of candidate_matches in insertion order, given
\* what the lexical and the semantic search returned
MergeCandidates(p, tfidf_results, semantic_results, expanded_query, query_clean, query_norm, query_lemmas_no_stop) ==
  LET itd == p.index_to_data
      query_length == Len(Split(query_lemmas_no_stop))
      Relevance(idx, sem) ==
        calculate_enhanced_relevance_score(query_norm, query_lemmas_no_stop,
          itd[idx].normalized_description, itd[idx].lemmatized_description, sem,
          query_length, StrLen(itd[idx].description), itd[idx].code)
      tf == SelectSeq(tfidf_results, LAMBDA x : x[1] \in DOMAIN itd)
      tfIdx == {tfidf_results[i][1] : i \in 1..Len(tfidf_results)}
      sm == SelectSeq(semantic_results, LAMBDA x : x[1] \notin tfIdx /\ x[1] \in DOMAIN itd)
      \* <<idx, semantic score, search type>> in insertion order
      entries == [i \in 1..Len(tf) |->
                    <<tf[i][1], SemanticScoreOf(semantic_results, tf[i][1]), "hybrid">>]
                 \o [i \in 1..Len(sm) |-> <<sm[i][1], sm[i][2], "semantic">>]
      Scored(e, relevance) ==
        Cand(itd[e[1]].code, itd[e[1]].description,
             IF e[3] = "hybrid"
             THEN BoostedScore(relevance, e[2], expanded_query, query_clean)
             ELSE relevance,
             e[3])
      Candidates(es) == [i \in 1..Len(es) |-> Scored(es[i], Relevance(es[i][1], es[i][2]))]
  IN Candidates(entries)

\* lines 1026-1095 for one variant
HybridCandidates(p, embedding, expanded_query, query_clean, query_norm, query_lemmas_no_stop) ==
  MergeCandidates(p, tfidf_search(p, query_lemmas_no_stop, 100),
                  faiss_search(embedding, p.index[1], query_lemmas_no_stop,
                               Min(200, Len(p.index[1]))),
                  expanded_query, query_clean, query_norm, query_lemmas_no_stop)

\* lines 1000-1098 for one variant whose normalized text is query_norm
VariantSearch(p, embedding, expanded_query, query_clean, lang, failed, query_norm) ==
  IF ~contains_valid_word(query_norm) THEN <<>>
  ELSE exact_match_search(p.df_system[1], expanded_query)
       \o (IF failed \/ ~FaissUsable(p) THEN <<>>
           ELSE HybridCandidates(p, embedding, expanded_query, query_clean, query_norm,
                                 remove_stopwords(lemmatize_text(query_norm), lang)))

\* lines 992-1098 for one variant; failed: the embedding call or the scoring raised
VariantResults(p, embedding, expanded_query, query_clean, lang, failed) ==
  VariantSearch(p, embedding, expanded_query, query_clean, lang, failed,
                normalize_text(expanded_query))

\* lines 985-1098: the results of every variant, in the order of the variants
PerVariant(p, embedding, expanded_queries, query_clean, lang, failedSet) ==
  [i \in 1..Len(expanded_queries) |->
     VariantResults(p, embedding, expanded_queries[i], query_clean, lang, i \in failedSet)]

RECURSIVE AllResults(_, _)
\* all_results: the results of the variants i.. one after the other
AllResults(per_variant, i) ==
  IF i > Len(per_variant) THEN <<>> ELSE per_variant[i] \o AllResults(per_variant, i + 1)

\* every result is kept
KeepDuplicates(results, seen_codes) == results

RECURSIVE DedupeCodes(_, _)
\* lines 1100-1106: the first result of every code
DedupeCodes(results, seen_codes) ==
  IF results = <<>> THEN <<>>
  ELSE IF Head(results).code \in seen_codes THEN DedupeCodes(Tail(results), seen_codes)
  ELSE <<Head(results)>> \o DedupeCodes(Tail(results), seen_codes \cup {Head(results).code})

\* lines 1100-1114: the candidates handed to the validation, best first
RankMatches(per_variant) == Take(SortByScore(DedupeCodes(AllResults(per_variant, 1), {})), 20)

\* lines 988-1114 for the stripped query
ScoredMatchesOf(p, embedding, query_clean, lang, failedSet) ==
  RankMatches(PerVariant(p, embedding, expand_query_with_corrections(query_clean),
                         query_clean, lang, failedSet))

\* lines 985-1114
ScoredMatches(p, embedding, query, lang, failedSet) ==
  ScoredMatchesOf(p, embedding, Strip(query), lang, failedSet)

\* the repository description whenever the repository has the code
AlwaysRepository(result, db_data, raised) ==
  IF raised \/ db_data = Nothing
  THEN [result EXCEPT !.validated = "false"]
  ELSE [result EXCEPT !.validated = "true", !.description = db_data[1].description,
                      !.description_source = "database"]

\* lines 904-946 for one result; db_data is what quick_code_lookup returned
EnrichOne(result, db_data, raised) ==
  IF raised
  THEN [result EXCEPT !.validated = "false", !.warning = "validation_error"]
  ELSE IF db_data = Nothing
  THEN [result EXCEPT !.validated = "false", !.warning = "validation_warning"]
  ELSE LET csv == result.description
           db == db_data[1].description
       IN IF StrLen(csv) > StrLen(db) * 2
          THEN [result EXCEPT !.validated = "true", !.description_source = "csv_full"]
          ELSE IF StrLen(db) < 50 /\ StrLen(csv) > StrLen(db)
          THEN [result EXCEPT !.validated = "true", !.description_source = "csv_preferred"]
          ELSE [result EXCEPT !.validated = "true", !.description = db,
                              !.description_source = "database"]

\* line 954 alone: every enriched result is returned
KeepAll(enriched_results) == enriched_results

\* lines 948-954
ValidOrAll(enriched_results) ==
  LET valid_results == SelectSeq(enriched_results, LAMBDA r : r.validated = "true")
  IN IF valid_results # <<>> THEN valid_results ELSE enriched_results

\* every item at or above the threshold whose code was not seen, without a cap
SimilarUncapped(items, threshold, seen_codes, acc, top_k) ==
  SelectSeq(items, LAMBDA item : item.relevance_score >= threshold /\ item.code \notin seen_codes)

RECURSIVE SimilarLoop(_, _, _, _, _)
\* the loops of lines 1143-1149 and 1156-1162
SimilarLoop(items, threshold, seen_codes, acc, top_k) ==
  IF items = <<>> THEN acc
  ELSE LET item == Head(items)
           take == item.relevance_score >= threshold /\ item.code \notin seen_codes
           acc2 == IF take THEN Append(acc, item) ELSE acc
       IN IF Len(acc2) >= top_k THEN acc2
          ELSE SimilarLoop(Tail(items), threshold,
                           IF take THEN seen_codes \cup {item.code} ELSE seen_codes, acc2, top_k)

CleanItem(item) == [item EXCEPT !.description = clean_description_for_output(@)]

\* every search that has a candidate reports it as a match of high confidence
UnbandedResponse(scored_matches, query_clean) ==
  IF scored_matches = <<>> THEN Resp("not_found", <<>>, <<>>, 0, 0, query_clean)
  ELSE Resp("high_confidence", <<CleanItem(scored_matches[1])>>, <<>>,
            scored_matches[1].relevance_score, Len(scored_matches), query_clean)

\* lines 1117-1181
BuildResponse(scored_matches, query_clean) ==
  LET highest_score == scored_matches[1].relevance_score
      n == Len(scored_matches)
  IN IF scored_matches = <<>> THEN Resp("not_found", <<>>, <<>>, 0, 0, query_clean)
     ELSE IF highest_score >= SCORE_THRESHOLD_BEST_MATCH
     THEN LET best_match == scored_matches[1]
              status == IF highest_score >= 8500 THEN "high_confidence"
                        ELSE IF highest_score >= 7000 THEN "medium_confidence"
                        ELSE "low_confidence"
              similar == SimilarLoop(Tail(scored_matches), SCORE_THRESHOLD_TOP_SIMILAR,
                                     {best_match.code}, <<>>, TOP_K_BEST_MATCH_SIMILAR)
          IN Resp(status, <<CleanItem(best_match)>>,
                  [i \in 1..Len(similar) |-> CleanItem(similar[i])], highest_score, n,
                  query_clean)
     ELSE IF highest_score >= MIN_RELEVANCE_FOR_ANY_MATCH
     THEN LET similar == SimilarLoop(scored_matches, MIN_RELEVANCE_FOR_ANY_MATCH, {}, <<>>,
                                     TOP_K_NOT_FOUND_SUGGESTIONS)
          IN Resp("not_found_with_suggestions", <<>>,
                  [i \in 1..Len(similar) |-> CleanItem(similar[i])], 0, n, query_clean)
     ELSE Resp("not_found", <<>>, <<>>, 0, n, query_clean)

\* ------------------------------------------------------------------------
\* utils/predictor.py: the repository stages of smart_search
\* ------------------------------------------------------------------------
\* fuzz.partial_ratio in percent
PartialRatio(q, d) ==
  IF q = <<>> \/ d = <<>> THEN 0
  ELSE IF TextIn(q, d) THEN 100
  ELSE IF Range(Split(q)) \cap Range(Split(d)) # {} THEN 50
  ELSE 25

\* lines 1326-1384 of _description_relevance: the signed category adjustment
DescriptionCategoryAdjustment(query_lower, code_prefix) ==
  LET is_food == AnyKw(food_keywords, query_lower)
      is_meat == AnyKw(meat_keywords, query_lower)
      is_veg == AnyKw(vegetable_keywords, query_lower)
      is_fruit == AnyKw(fruit_keywords, query_lower)
      p07 == StartsWith(code_prefix, <<"0", "7">>)
      p08 == StartsWith(code_prefix, <<"0", "8">>)
      p02 == StartsWith(code_prefix, <<"0", "2">>)
      a0 == CASE is_veg -> (IF p07 THEN 3000 ELSE IF p08 THEN -5000 ELSE IF p02 THEN -6000 ELSE 0)
              [] ~is_veg /\ is_fruit ->
                   (IF p08 THEN 3000 ELSE IF p07 THEN -2000 ELSE IF p02 THEN -6000 ELSE 0)
              [] ~is_veg /\ ~is_fruit /\ is_food /\ ~is_meat ->
                   (IF p02 THEN -4000 ELSE IF p08 \/ p07 THEN 2000 ELSE 0)
              [] OTHER -> 0
      a1 == IF AnyKw({"vinograd", "izyum"}, query_lower)
            THEN (IF p08 THEN Max(a0, 3000) ELSE IF p02 THEN Min(a0, -5000) ELSE a0)
            ELSE a0
      a2 == IF AnyKw({"tomat", "pomidor"}, query_lower)
            THEN (IF StartsWith(code_prefix, <<"0", "7", "0", "2">>) THEN Max(a1, 4000)
                  ELSE IF p07 THEN Max(a1, 2000)
                  ELSE IF p08 THEN Min(a1, -4000)
                  ELSE IF p02 THEN Min(a1, -5000)
                  ELSE a1)
            ELSE a1
  IN a2

description_relevance(query, description, product_code) ==
  LET q == normalize_text(query)
      d == normalize_text(description)
      fuzzy == PartialRatio(q, d) * 100
      q_words == Range(Split(q))
      d_words == Range(Split(d))
      overlap_words == q_words \cap d_words
      product_overlap == overlap_words \cap product_terms
      query_product_terms == q_words \cap product_terms
      overlap ==
        IF query_product_terms # {}
        THEN (IF product_overlap = {} THEN 0
              ELSE (Cardinality(product_overlap) * 8000) \div Cardinality(query_product_terms)
                   + (Cardinality(overlap_words \ product_terms) * 2000)
                     \div Max(Cardinality(q_words \ product_terms), 1))
        ELSE (Cardinality(overlap_words) * 10000) \div Max(Cardinality(q_words), 1)
      base_score == (70 * fuzzy + 30 * overlap) \div 100
      category_adjustment == DescriptionCategoryAdjustment(Lower(q), Take(product_code, 4))
  IN Max(0, Min(base_score + category_adjustment, 10000))

\* extract_key_product_terms
extract_key_product_terms(query) ==
  LET query_lower == Lower(query)
  IN IF KwIn("steklo", query_lower) \/ KwIn("glass", query_lower)
     THEN <<<<"steklo">>>>
          \o (IF KwIn("listovoe", query_lower) \/ KwIn("listov", query_lower)
              THEN <<<<"steklo", SP, "listovoe">>>> ELSE <<>>)
          \o (IF KwIn("polirovannoe", query_lower) \/ KwIn("polirovan", query_lower)
              THEN <<<<"steklo", SP, "polirovannoe">>, <<"polirovannoe", SP, "steklo">>>>
              ELSE <<>>)
          \o (IF KwIn("okrashennoe", query_lower) \/ KwIn("okrashen", query_lower)
              THEN <<<<"steklo", SP, "okrashennoe">>>> ELSE <<>>)
     ELSE IF AnyKw({"metall", "stalj", "profilj", "metal", "steel"}, query_lower)
     THEN LET metal_terms ==
                (IF KwIn("metall", query_lower) \/ KwIn("metal", query_lower)
                 THEN <<<<"metall">>>> ELSE <<>>)
                \o (IF KwIn("stalj", query_lower) \/ KwIn("steel", query_lower)
                    THEN <<<<"stalj">>>> ELSE <<>>)
                \o (IF KwIn("profilj", query_lower)
                    THEN <<<<"profilj", SP, "metallicheskiy">>>> ELSE <<>>)
          IN IF metal_terms # <<>> THEN metal_terms ELSE <<<<"metall">>>>
     ELSE <<query>>

\* one result of a repository stage
Item(code, description, desc_score) ==
  [code |-> code, description |-> description, desc_score |-> desc_score]

RowsToItems(rows) == [i \in 1..Len(rows) |-> Item(rows[i].code, rows[i].description, 0)]

RECURSIVE FreshItems(_, _)
\* lines 1517-1522: the results whose code was not seen before
FreshItems(items, seen_codes) ==
  IF items = <<>> THEN <<>>
  ELSE IF Head(items).code \in seen_codes THEN FreshItems(Tail(items), seen_codes)
  ELSE <<Head(items)>> \o FreshItems(Tail(items), seen_codes \cup {Head(items).code})

ItemCodes(items) == {items[i].code : i \in 1..Len(items)}

\* lines 1535-1550 of enhanced_db_search
Prioritize(all_results, key_terms, query, limit) ==
  LET glass == \E i \in 1..Len(key_terms) : KwIn("steklo", key_terms[i])
      metal == AnyKw({"metall", "stalj", "profilj"}, Lower(query))
      in70(r) == StartsWith(r.code, <<"7", "0">>)
      in7273(r) == StartsWith(r.code, <<"7", "2">>) \/ StartsWith(r.code, <<"7", "3">>)
  IN IF glass
     THEN Take(SelectSeq(all_results, in70) \o SelectSeq(all_results, LAMBDA r : ~in70(r)), limit)
     ELSE IF metal
     THEN Take(SelectSeq(all_results, in7273)
               \o SelectSeq(all_results, LAMBDA r : ~in7273(r)), limit)
     ELSE Take(all_results, limit)

SortItems(items) ==
  LET sorted == SortPairsDesc([i \in 1..Len(items) |-> <<items[i].desc_score, items[i]>>], <<>>)
  IN [i \in 1..Len(sorted) |-> sorted[i][2]]

\* lines 1619-1623
RankItems(items, query) ==
  SortItems([i \in 1..Len(items) |->
               [items[i] EXCEPT !.desc_score =
                  description_relevance(query, items[i].description, items[i].code)]])

\* product_segments: the vocabulary has no hierarchy separator
product_segments(description) == <<Strip(Lower(description))>>

\* is_good_match
is_good_match(query, segments) ==
  LET norm_query_tokens == Range(Split(normalize_text(query)))
      lemma_query_tokens == Range(Split(lemmatize_text(normalize_text(query))))
      all_seg_norm_tokens ==
        UNION {Range(Split(normalize_text(segments[i]))) : i \in 1..Len(segments)}
      all_seg_lem_tokens ==
        UNION {Range(Split(lemmatize_text(normalize_text(segments[i])))) : i \in 1..Len(segments)}
  IN /\ norm_query_tokens # {}
     /\ \/ norm_query_tokens \cap all_seg_norm_tokens # {}
        \/ lemma_query_tokens \cap all_seg_lem_tokens # {}

\* lines 1666-1673
TextMatches(db_results, query) ==
  SelectSeq(db_results, LAMBDA r : Len(r.code) = 10
                                   /\ is_good_match(query, product_segments(r.description)))

\* WORD_VARIATIONS on the vocabulary: every base with its forms
WordVariationForms == {"pomidor", "pomidory", "ogurets", "ogurtsy"}

\* lines 1693-1708
is_product_name(query) == Range(Split(normalize_text(query))) \cap WordVariationForms # {}

\* search_by_sentence_words, line 1445
SentenceWords(query) == SelectSeq(Split(normalize_text(query)), LAMBDA w : WordLen(w) > 2)

\* lines 1459-1464: the counts after the rows found for one word
CountWordResults(counts, word_results) ==
  LET known == ItemCodes(counts)
      bumped == [i \in 1..Len(counts) |->
                   [counts[i] EXCEPT !.desc_score =
                      @ + Cardinality({j \in 1..Len(word_results) :
                                         word_results[j].code = counts[i].code})]]
      fresh == FreshItems(RowsToItems(word_results), known)
  IN bumped \o [i \in 1..Len(fresh) |->
                  [fresh[i] EXCEPT !.desc_score =
                     Cardinality({j \in 1..Len(word_results) :
                                    word_results[j].code = fresh[i].code})]]

RECURSIVE InsertByCount(_, _)
InsertByCount(x, sorted) ==
  IF sorted = <<>> THEN <<x>>
  ELSE LET h == Head(sorted)
       IN IF h.desc_score > x.desc_score
             \/ (h.desc_score = x.desc_score /\ ~CodeLess(x.code, h.code))
          THEN <<h>> \o InsertByCount(x, Tail(sorted))
          ELSE <<x>> \o sorted

\* the counted results in the order they were first seen
FirstSeenOrder(items, acc) == items

RECURSIVE SortByCount(_, _)
\* line 1466: by match_count descending, then code ascending
SortByCount(items, acc) ==
  IF items = <<>> THEN acc ELSE SortByCount(Tail(items), InsertByCount(Head(items), acc))

\* ------------------------------------------------------------------------
\* The running bot: the repository, the engine singleton, the cache and the
\* search requests in flight
\* ------------------------------------------------------------------------
VARIABLES
  repo,                \* rows of m_classifier_hs1
  predictor,           \* the EnhancedProductSearchSystem singleton
  embedding,           \* the sentence-embedding model the process loads
  search_cache,        \* _search_cache, oldest entry first
  last_cache_cleanup,  \* _last_cache_cleanup
  now,                 \* time.time()
  req,                 \* the smart_search call of every task
  calls,               \* smart_search calls started so far
  loads,               \* history: catalog loads performed
  builds,              \* history: index builds performed
  faults,              \* history: how many provider calls raised
  stale,               \* history: the engine changed under a cached or half-made response
  prev,                \* history: the latest search enhanced_predict_code completed
  answers,             \* history: what smart_search answered in the present world
  f_results, f_query, f_out, f_pc,  \* one call of filter_results_by_category
  s_in, s_out, s_pc,                \* one call of a pure function: arguments, value
  recovery_manager,    \* the ErrorRecoveryManager global instance
  r_task,              \* the asyncio tasks that call the recovery manager
  restart_count,       \* main.restart_count
  polling,             \* the start_polling_with_retry coroutine
  health_tasks         \* the check_bot_health tasks created so far

engineVars == <<repo, predictor, embedding, search_cache, last_cache_cleanup, now,
                req, calls, loads, builds, faults, stale, prev, answers>>

filterVars == <<f_results, f_query, f_out, f_pc>>

scoreVars == <<s_in, s_out, s_pc>>

recoveryVars == <<recovery_manager, r_task>>

mainVars == <<restart_count, polling, health_tasks>>

vars == <<engineVars, filterVars, scoreVars, recoveryVars, mainVars>>

\* the recovery manager and the polling loop are not part of a search run
RecoveryOff ==
  /\ recovery_manager = <<>>
  /\ r_task = <<>>

MainOff ==
  /\ restart_count = 0
  /\ polling = <<>>
  /\ health_tasks = <<>>

Tasks == {"t1", "t2"}

\* handlers/user.py line 419: smart_search(query, lang, limit=5)
HandlerLimit == 5

\* what the environment of one specification may do: the tasks that call smart_search,
\* the calls they make, how many of them, and how many provider calls may raise
Env ==
  [tasks |-> {"t1"},
   inputs |-> {<<<<"pomidory">>, "ru">>, <<<<SP, "pomidory">>, "ru">>,
               <<<<"men", SP, "steklo">>, "ru">>, <<<<"stalj">>, "ru">>,
               <<<<"xyz">>, "uz">>, <<<<"ogurtsy">>, "ru">>, <<<<SP>>, "ru">>},
   calls |-> MaxCalls, faults |-> MaxFaults]

\* concurrent first requests
InitEnv ==
  [tasks |-> Tasks, inputs |-> {<<<<"men", SP, "steklo">>, "ru">>},
   calls |-> MaxConcurrentCalls, faults |-> MaxFaults]

\* the same query in two languages, repeated, with providers that answer
RepeatEnv ==
  [tasks |-> Tasks,
   inputs |-> {<<<<"men", SP, "steklo">>, "ru">>, <<<<"men", SP, "steklo">>, "uz">>},
   calls |-> MaxRepeatCalls, faults |-> 0]

\* queries that are codes, one of the table and one of the catalog only, a query
\* whose words a description holds in another order, and a query of two products
ScenarioEnv ==
  [tasks |-> {"t1"},
   inputs |-> {<<<<"0702000000">>, "ru">>, <<<<"0000720810">>, "ru">>,
               <<<<"listovoe", SP, "steklo">>, "ru">>,
               <<<<"pomidory", SP, "steklo">>, "ru">>},
   calls |-> MaxCalls, faults |-> MaxFaults]

\* queries of one or two words: products, a synonym, upper case, a descriptor, an
\* administrative term and a material
ExpandWords == {"pomidory", "POMIDOR", "tomaty", "svezhie", "gost", "steklo"}

ExpandEnv ==
  [tasks |-> {"t1"},
   inputs |-> {<<<<a>>, "ru">> : a \in ExpandWords}
              \cup {<<<<a, SP, b>>, "ru">> : a \in ExpandWords, b \in ExpandWords},
   calls |-> MaxExpandCalls, faults |-> MaxFaults]

\* the query variants whose embedding call or scoring raises during one call
FailureSets == {{}, {1}, {1, 2, 3}}

Visit(stage, yield) == [stage |-> stage, yield |-> yield]

IdleReq ==
  [pc |-> "idle", query |-> <<>>, lang |-> "ru", uninit |-> FALSE, ready |-> FALSE,
   lex |-> FALSE, sem |-> FALSE, clean |-> TRUE, expect |-> Nothing,
   pending |-> <<>>, enriched |-> <<>>, found |-> {}, terms |-> <<>>, acc |-> <<>>,
   trace |-> <<>>, enh |-> Nothing, result |-> Nothing]

\* the dict smart_search returns
SmartResult(status, results, source) ==
  [status |-> status, results |-> results, source |-> source]

Finish(rq, status, results, source, visits) ==
  [rq EXCEPT !.pc = "done", !.result = Some(SmartResult(status, results, source)),
             !.trace = @ \o visits]

NotFound(rq, visits) == Finish(rq, "not_found", <<>>, "none", visits \o <<Visit("not_found", 0)>>)

\* smart_search line 1614: enhanced_db_search starts with the first key term
Stage4Begin(rq) ==
  [rq EXCEPT !.pc = "db4", !.terms = extract_key_product_terms(rq.query), !.acc = <<>>]

\* lines 1611-1614: on to enhanced_db_search whatever the engine answered
FallThrough(rq, resp) == Stage4Begin([rq EXCEPT !.enh = Some(resp)])

\* smart_search lines 1573-1610: what follows the response of the engine
\* (the category filter module is always importable)
AfterEnhanced(rq, resp) ==
  LET rq1 == [rq EXCEPT !.enh = Some(resp)]
      cands == resp.best_match \o resp.top_similar
      results == [i \in 1..Len(cands) |->
                    Item(cands[i].code, cands[i].description, cands[i].relevance_score)]
      filtered == filter_results_by_category(results, rq.query)
  IN IF resp.status \in {"high_confidence", "medium_confidence"}
        /\ ~(Len(results) > 0 /\ Len(filtered) = 0)
     THEN Finish(rq1, "ok", Take(filtered, HandlerLimit), "enhanced_search_filtered", <<>>)
     ELSE Stage4Begin(rq1)

\* lines 1026-1098 per variant: how many candidates each retrieval gave
RECURSIVE VariantVisits(_, _, _)
VariantVisits(per_variant, expanded_queries, i) ==
  IF i > Len(expanded_queries) THEN <<>>
  ELSE LET exact == SelectSeq(per_variant[i], LAMBDA c : c.search_type \in {"exact_code", "exact_phrase"})
       IN (IF contains_valid_word(normalize_text(expanded_queries[i]))
           THEN <<Visit("exact", Len(exact)),
                  Visit("hybrid", Len(per_variant[i]) - Len(exact))>>
           ELSE <<>>)
          \o VariantVisits(per_variant, expanded_queries, i + 1)

\* enhanced_predict_code lines 1112-1184 when no candidate was found
EmptySearch(traced, cache, last, query_clean, result) ==
  [rq |-> AfterEnhanced(traced, result),
   cache |-> cache_result(cache, query_clean, traced.lang, result), last |-> last]

\* enhanced_predict_code lines 985-1189 after a cache miss on a non-blank
\* query, up to its first suspension
EnhancedMiss(miss, cache, last, query_clean, scored, visits) ==
  IF scored = <<>>
  THEN EmptySearch([miss EXCEPT !.trace = @ \o visits], cache, last, query_clean,
                   BuildResponse(<<>>, query_clean))
  ELSE [rq |-> [miss EXCEPT !.pc = "enrich", !.pending = scored, !.enriched = <<>>,
                            !.trace = @ \o visits],
        cache |-> cache, last |-> last]

\* what enhanced_predict_code answers without searching: a cached response
\* (lines 961-965) or the response to a blank query (lines 976-983)
EnhancedShortcut(rq, cache, last, cached_result) ==
  [rq |-> AfterEnhanced([rq EXCEPT !.trace = @ \o <<Visit("cache", IF cached_result # Nothing
                                                                    THEN 1 ELSE 0)>>],
                        IF cached_result # Nothing
                        THEN [cached_result[1] EXCEPT !.from_cache = TRUE]
                        ELSE EmptyQueryResponse),
   cache |-> cache, last |-> last]

\* the lexical index holds a row for every catalog entry the engine maps
LexicalComplete(p) ==
  /\ p.tfidf_vectorizer = "fitted"
  /\ p.tfidf_matrix # Nothing
  /\ Len(p.tfidf_matrix[1]) = Len(p.index_to_data)

\* the semantic index holds a vector for every catalog entry the engine maps
SemanticComplete(p) ==
  /\ p.index # Nothing
  /\ Len(p.index[1]) = Len(p.index_to_data)
  /\ Len(p.index[1]) > 0

\* the request once the engine is known to be initialized
ReadyReq(rq0, p, previous) ==
  [rq0 EXCEPT !.ready = TRUE,
     !.lex = LexicalComplete(p),
     !.sem = SemanticComplete(p),
     !.expect = IF previous # Nothing /\ previous[1].query = rq0.query
                   /\ previous[1].lang = rq0.lang
                THEN previous ELSE Nothing]

\* lines 1100-1114 as seen by the request, given the results of the variants
SearchedMiss(rq, cache, last, query_clean, expanded_queries, per_variant) ==
  EnhancedMiss([rq EXCEPT !.trace = @ \o <<Visit("cache", 0)>>], cache, last, query_clean,
               RankMatches(per_variant), VariantVisits(per_variant, expanded_queries, 1))

\* lines 990-1098 as seen by the request, given the variants of the query
ExpandedSearch(rq, p, emb, cache, last, query_clean, expanded_queries, failedSet) ==
  SearchedMiss(rq, cache, last, query_clean, expanded_queries,
               PerVariant(p, emb, expanded_queries, query_clean, rq.lang, failedSet))

\* lines 985-1098 as seen by the request
EnhancedSearch(rq, p, emb, cache, last, query_clean, failedSet) ==
  ExpandedSearch(rq, p, emb, cache, last, query_clean,
                 expand_query_with_corrections(query_clean), failedSet)

\* enhanced_predict_code lines 961-985 once the cache was cleaned and read
Entered(rq, p, emb, cl, cached_result, query_clean, failedSet) ==
  IF cached_result # Nothing \/ query_clean = <<>>
  THEN EnhancedShortcut(rq, cl.cache, cl.last, cached_result)
  ELSE EnhancedSearch(rq, p, emb, cl.cache, cl.last, query_clean, failedSet)

\* enhanced_predict_code line 961 once the cache was cleaned (line 246)
Cleaned(rq0, p, emb, cl, failedSet, previous) ==
  Entered(ReadyReq(rq0, p, previous), p, emb, cl,
          get_cached_result(cl.cache, rq0.query, rq0.lang), Strip(rq0.query), failedSet)

\* enhanced_search_product -> enhanced_predict_code up to its first suspension:
\* the request, the cache and the cleanup time afterwards
EnterEnhanced(rq0, p, emb, c, last, current_time, failedSet, previous) ==
  Cleaned(rq0, p, emb, cleanup_memory_cache(c, last, current_time), failedSet, previous)

\* the filtered results returned whole
Stage4Uncut(rq, ranked_results, filtered_results) ==
  IF filtered_results # <<>>
  THEN Finish(rq, "ok", filtered_results, "enhanced_search_filtered",
              <<Visit("category_db", Len(filtered_results))>>)
  ELSE Finish(rq, "ok", ranked_results, "enhanced_search_warning",
              <<Visit("category_db", Len(ranked_results))>>)

\* smart_search lines 1625-1647: the ranked results are filtered and returned
Stage4Return(rq, ranked_results, filtered_results) ==
  IF filtered_results # <<>>
  THEN Finish(rq, "ok", Take(filtered_results, HandlerLimit), "enhanced_search_filtered",
              <<Visit("category_db", Len(filtered_results))>>)
  ELSE Finish(rq, "ok", Take(ranked_results, HandlerLimit), "enhanced_search_warning",
              <<Visit("category_db", Len(ranked_results))>>)

\* smart_search lines 1619-1647 given what enhanced_db_search ranked
Stage4Ranked(rq, ranked_results) ==
  Stage4Return(rq, ranked_results, filter_results_by_category(ranked_results, rq.query))

\* smart_search lines 1614-1647 given what enhanced_db_search returned
Stage4Prioritized(rq, prioritized) ==
  IF prioritized = <<>>
  THEN [rq EXCEPT !.pc = "db5", !.trace = @ \o <<Visit("category_db", 0)>>]
  ELSE Stage4Ranked(rq, RankItems(prioritized, rq.query))

\* enhanced_db_search lines 1535-1550, then smart_search lines 1614-1647
Stage4Finish(rq, all_results) ==
  Stage4Prioritized(rq, Prioritize(all_results, extract_key_product_terms(rq.query),
                                   rq.query, 20))

\* smart_search lines 1690-1736 given the text matches and their ranking
Stage5Matched(rq, text_matches, ranked_matches, words) ==
  IF text_matches # <<>>
  THEN Finish(rq, "ok", Take(ranked_matches, HandlerLimit), "fallback_filtered",
              <<Visit("segment", Len(ranked_matches))>>)
  ELSE IF is_product_name(rq.query) THEN NotFound(rq, <<Visit("segment", 0)>>)
  ELSE IF words = <<>> THEN NotFound(rq, <<Visit("segment", 0), Visit("keyword", 0)>>)
  ELSE [rq EXCEPT !.pc = "db6", !.terms = words, !.acc = <<>>,
                  !.trace = @ \o <<Visit("segment", 0)>>]

\* smart_search lines 1676-1736 given the text matches
Stage5Ranked(rq, text_matches) ==
  Stage5Matched(rq, text_matches,
                filter_results_by_category(RankItems(text_matches, rq.query), rq.query),
                SentenceWords(rq.query))

\* smart_search lines 1666-1736 after search_classifier_db(query, limit=100) returned
Stage5Finish(rq, db_results) == Stage5Ranked(rq, TextMatches(db_results, rq.query))

\* smart_search lines 1723-1743 given the most frequent results
Stage6Sorted(rq, sorted_results, keyword_results) ==
  IF sorted_results # <<>>
  THEN Finish(rq, "ok", keyword_results, "keyword_fallback_filtered",
              <<Visit("keyword", Len(keyword_results))>>)
  ELSE NotFound(rq, <<Visit("keyword", 0)>>)

\* search_by_sentence_words lines 1462-1467 given the counted results
Stage6Counted(rq, sorted_results) ==
  Stage6Sorted(rq, sorted_results, filter_results_by_category(sorted_results, rq.query))

\* smart_search lines 1720-1743 after search_by_sentence_words returned
Stage6Finish(rq, counts) == Stage6Counted(rq, Take(SortByCount(counts, <<>>), HandlerLimit))

\* ------------------------------------------------------------------------
\* History bookkeeping
\* ------------------------------------------------------------------------
BestCode(resp) == IF resp.best_match = <<>> THEN <<>> ELSE resp.best_match[1].code

\* the latest search enhanced_predict_code completed, after old became new
PrevAfter(old, new) ==
  IF old.enh = Nothing /\ new.enh # Nothing /\ new.enh[1].status \notin {"error", "system_error"}
  THEN Some([query |-> new.query, lang |-> new.lang, status |-> new.enh[1].status,
             best |-> BestCode(new.enh[1])])
  ELSE prev

Answer(rq) ==
  [query |-> rq.query, lang |-> rq.lang,
   enh |-> IF rq.enh = Nothing THEN Nothing ELSE Some([rq.enh[1] EXCEPT !.from_cache = FALSE]),
   result |-> rq.result[1]]

AnswersAfter(known, new) ==
  IF new.pc = "done" /\ new.clean THEN known \cup {Answer(new)} ELSE known

Computing == {"enrich", "db4", "db4fb", "db5", "db6"}

\* the requests after the catalog, an index or the table changed (or not)
Unsettle(r, changed) ==
  [t \in Tasks |-> IF changed /\ r[t].pc \in Computing THEN [r[t] EXCEPT !.clean = FALSE]
                   ELSE r[t]]

StaleAfter(changed) ==
  stale \/ (changed /\ (search_cache # <<>> \/ \E t \in Tasks : req[t].pc = "enrich"))

\* ------------------------------------------------------------------------
\* Actions
\* ------------------------------------------------------------------------
Init ==
  /\ repo \in InitialRepos
  /\ predictor = NewPredictor
  /\ embedding \in EmbeddingModels
  /\ search_cache = <<>>
  /\ last_cache_cleanup = 0
  /\ now = 0
  /\ req = [t \in Tasks |-> IdleReq]
  /\ calls = 0
  /\ loads = 0
  /\ builds = 0
  /\ faults = 0
  /\ stale = FALSE
  /\ prev = Nothing
  /\ answers = {}
  /\ f_results = <<>>
  /\ f_query = <<>>
  /\ f_out = <<>>
  /\ f_pc = "off"
  /\ s_in = <<>>
  /\ s_out = <<>>
  /\ s_pc = "off"
  /\ RecoveryOff
  /\ MainOff

\* smart_search after _async_init returned: lines 1568-1614 up to the next suspension
AfterInit(t, rq, p, failedSet, changed, raised) ==
  \E b \in {IF p.initialized
            THEN EnterEnhanced(rq, p, embedding, search_cache, last_cache_cleanup, now,
                               failedSet, prev)
            ELSE [rq |-> Stage4Begin(rq), cache |-> search_cache,
                  last |-> last_cache_cleanup]} :
    \E ran \in {p.initialized /\ b.rq.trace # <<>> /\ b.rq.trace[1].yield = 0
                /\ Strip(rq.query) # <<>>} :
      /\ req' = [Unsettle(req, changed) EXCEPT ![t] = b.rq]
      /\ search_cache' = b.cache
      /\ last_cache_cleanup' = b.last
      /\ faults' = faults + (IF raised \/ (ran /\ failedSet # {}) THEN 1 ELSE 0)
      /\ prev' = PrevAfter(rq, b.rq)
      /\ answers' = AnswersAfter(IF changed THEN {} ELSE answers, b.rq)
      /\ stale' = StaleAfter(changed)

\* a handler calls smart_search: lines 1552-1566, and _async_init lines 566-603
Start(t, env) ==
  /\ req[t].pc \in {"idle", "done", "raised"}
  /\ calls < env.calls
  /\ calls' = calls + 1
  /\ \E input \in env.inputs :
       \E rq \in {[IdleReq EXCEPT !.query = input[1], !.lang = input[2],
                                  !.uninit = ~predictor.initialized]},
          p \in {[predictor EXCEPT !.model = "loaded"]} :
          IF predictor.initialized
          THEN /\ \E failedSet \in FailureSets :
                    /\ failedSet # {} => faults < env.faults
                    /\ AfterInit(t, rq, predictor, failedSet, FALSE, FALSE)
               /\ UNCHANGED predictor
          ELSE /\ predictor' = p
               /\ req' = [Unsettle(req, p # predictor) EXCEPT ![t] = [rq EXCEPT !.pc = "load"]]
               /\ answers' = IF p # predictor THEN {} ELSE answers
               /\ stale' = StaleAfter(p # predictor)
               /\ UNCHANGED <<search_cache, last_cache_cleanup, faults, prev>>
  /\ UNCHANGED <<repo, embedding, now, loads, builds, filterVars, scoreVars, recoveryVars, mainVars>>

\* _load_data_from_database: the connection failed, or the rows arrived
LoadDone(t, env) ==
  /\ req[t].pc = "load"
  /\ \E outcome \in {"rows", "connect_error"} :
       IF outcome = "rows"
       THEN \E p \in {[predictor EXCEPT !.df_system = Some(LoadedFrame(repo))]} :
              /\ predictor' = p
              /\ loads' = loads + 1
              /\ req' = [Unsettle(req, p # predictor) EXCEPT ![t].pc = "close"]
              /\ answers' = IF p # predictor THEN {} ELSE answers
              /\ stale' = StaleAfter(p # predictor)
              /\ UNCHANGED <<search_cache, last_cache_cleanup, faults, prev, builds>>
       ELSE \* conn is None: no close; _async_init goes on at line 605
            \E p1 \in {finish_async_init([predictor EXCEPT !.df_system = Some(EmptyFrame)],
                                         "ok", "ok")} :
              /\ faults < env.faults
              /\ predictor' = p1
              /\ loads' = loads
              /\ builds' = builds
              /\ AfterInit(t, req[t], p1, {}, p1 # predictor, TRUE)
  /\ UNCHANGED <<repo, embedding, now, calls, filterVars, scoreVars, recoveryVars, mainVars>>

\* how many of the steps after the load raised
Raises(close_raised, faiss_outcome, tfidf_outcome, failedSet) ==
  Cardinality({x \in {<<1, close_raised>>, <<2, faiss_outcome # "ok">>,
                      <<3, tfidf_outcome # "ok">>, <<4, failedSet # {}>>} : x[2]})

\* conn.close() in the finally of the load, then _async_init lines 605-624
CloseDone(t, env) ==
  /\ req[t].pc = "close"
  /\ \E close_raised \in BOOLEAN, faiss_outcome \in BuildOutcomes,
        tfidf_outcome \in {"ok", "raise"}, failedSet \in FailureSets :
       \E raises \in {Raises(close_raised, faiss_outcome, tfidf_outcome, failedSet)},
          p1 \in {IF close_raised THEN [predictor EXCEPT !.initialized = FALSE]
                  ELSE finish_async_init(predictor, faiss_outcome, tfidf_outcome)} :
          /\ raises = 0 \/ (raises = 1 /\ faults < env.faults)
          /\ predictor' = p1
          /\ builds' = IF ~close_raised /\ Len(predictor.df_system[1]) > 0
                       THEN builds + 1 ELSE builds
          /\ AfterInit(t, req[t], p1, failedSet, p1 # predictor, raises = 1 /\ failedSet = {})
  /\ UNCHANGED <<repo, embedding, now, calls, loads, filterVars, scoreVars, recoveryVars, mainVars>>

\* _enrich_with_database_info lines 904-946 for the next pending result
EnrichedReq(rq, db_data, raised) ==
  [rq EXCEPT !.pending = Tail(@),
             !.enriched = Append(@, EnrichOne(Head(rq.pending), db_data, raised)),
             !.found = IF ~raised /\ db_data # Nothing
                       THEN @ \cup {Head(rq.pending).code} ELSE @]

\* what a call of db_search.py does besides answering: its query raises, which
\* the function catches itself (lines 148-150, 176-178), or conn.close() in its
\* finally raises (lines 152-154, 179-181), which leaves the function
DbFaults == {"none", "query_error", "close_error"}

\* _enrich_with_database_info: quick_code_lookup answered for the next result; after
\* the last one enhanced_predict_code lines 1117-1189 and smart_search lines 1573-1614
\* go on
EnrichStep(t, env) ==
  /\ req[t].pc = "enrich"
  /\ \E fault \in DbFaults : \E raised \in {fault # "none"} :
       \E rq1 \in {EnrichedReq(req[t],
                               IF fault = "query_error" THEN Nothing
                               ELSE quick_code_lookup(repo, Head(req[t].pending).code),
                               fault = "close_error")},
          query_clean \in {Strip(req[t].query)} :
         \E response \in {BuildResponse(ValidOrAll(rq1.enriched), query_clean)} :
           \E new \in {IF rq1.pending = <<>> THEN AfterEnhanced(rq1, response) ELSE rq1} :
             /\ raised => faults < env.faults
             /\ req' = [req EXCEPT ![t] = new]
             /\ search_cache' = IF rq1.pending = <<>>
                                THEN cache_result(search_cache, query_clean, rq1.lang, response)
                                ELSE search_cache
             /\ faults' = faults + (IF raised THEN 1 ELSE 0)
             /\ prev' = PrevAfter(req[t], new)
             /\ answers' = AnswersAfter(answers, new)
  /\ UNCHANGED <<repo, predictor, embedding, last_cache_cleanup, now, calls, loads,
                 builds, stale, filterVars, scoreVars, recoveryVars, mainVars>>

\* a repository stage moved request t to new; raised: the stage consumed a fault
StageStep(t, env, new, raised) ==
  /\ raised => faults < env.faults
  /\ req' = [req EXCEPT ![t] = new]
  /\ faults' = faults + (IF raised THEN 1 ELSE 0)
  /\ answers' = AnswersAfter(answers, new)
  /\ UNCHANGED <<repo, predictor, embedding, search_cache, last_cache_cleanup, now,
                 calls, loads, builds, stale, prev, filterVars, scoreVars, recoveryVars, mainVars>>

\* enhanced_db_search lines 1514-1524: search_classifier_db answered for the next key
\* term, or gave nothing (its query raised, or its close raised and line 1523 caught it)
Db4Step(t, env) ==
  /\ req[t].pc = "db4"
  /\ \E raised \in BOOLEAN :
       \E rq \in {req[t]},
          term_results \in {IF raised THEN <<>>
                            ELSE RowsToItems(search_classifier_db(repo, Head(req[t].terms),
                                                                  20))} :
         \E all_results \in {rq.acc \o FreshItems(term_results, ItemCodes(rq.acc))} :
           \E new \in {IF Tail(rq.terms) # <<>>
                       THEN [rq EXCEPT !.terms = Tail(@), !.acc = all_results]
                       ELSE IF all_results = <<>>
                       THEN [rq EXCEPT !.terms = <<>>, !.pc = "db4fb"]
                       ELSE Stage4Finish([rq EXCEPT !.terms = <<>>, !.acc = <<>>],
                                         all_results)} :
             StageStep(t, env, new, raised)

\* enhanced_db_search lines 1527-1533: the search for the whole query answered
Db4Fallback(t, env) ==
  /\ req[t].pc = "db4fb"
  /\ \E raised \in BOOLEAN :
       \E all_results \in {IF raised THEN <<>>
                           ELSE RowsToItems(search_classifier_db(repo, req[t].query, 20))} :
         \E new \in {Stage4Finish(req[t], all_results)} :
           StageStep(t, env, new, raised)

\* smart_search line 1661: db_search_func(query, limit=100) answered or raised;
\* lines 1662-1664 catch ImportError and NameError only
Db5Step(t, env) ==
  /\ req[t].pc = "db5"
  /\ \E fault \in DbFaults :
       \E db_results \in {IF fault # "none" THEN <<>>
                          ELSE RowsToItems(search_classifier_db(repo, req[t].query, 100))} :
         \E new \in {IF fault = "close_error" THEN [req[t] EXCEPT !.pc = "raised"]
                     ELSE Stage5Finish(req[t], db_results)} :
           StageStep(t, env, new, fault # "none")

\* search_by_sentence_words line 1454: db_search_func(word, limit=20) answered or
\* raised; lines 1455-1457 catch ImportError and NameError only
Db6Step(t, env) ==
  /\ req[t].pc = "db6"
  /\ \E fault \in DbFaults : \E raised \in {fault # "none"} :
       \E rq \in {req[t]},
          counts \in {IF fault # "none" THEN req[t].acc
                      ELSE CountWordResults(req[t].acc,
                             search_classifier_db(repo, <<Head(req[t].terms)>>, 20))} :
         \E new \in {IF fault = "close_error" THEN [rq EXCEPT !.pc = "raised"]
                     ELSE IF Tail(rq.terms) # <<>>
                     THEN [rq EXCEPT !.terms = Tail(@), !.acc = counts]
                     ELSE Stage6Finish([rq EXCEPT !.terms = <<>>, !.acc = <<>>], counts)} :
           StageStep(t, env, new, raised)

Next ==
  \/ \E t \in Env.tasks : Start(t, Env)
  \/ \E t \in Env.tasks : LoadDone(t, Env)
  \/ \E t \in Env.tasks : CloseDone(t, Env)
  \/ \E t \in Env.tasks : EnrichStep(t, Env)
  \/ \E t \in Env.tasks : Db4Step(t, Env)
  \/ \E t \in Env.tasks : Db4Fallback(t, Env)
  \/ \E t \in Env.tasks : Db5Step(t, Env)
  \/ \E t \in Env.tasks : Db6Step(t, Env)

Spec == Init /\ [][Next]_vars

\* two tasks whose first requests overlap
NextInit ==
  \/ \E t \in InitEnv.tasks : Start(t, InitEnv)
  \/ \E t \in InitEnv.tasks : LoadDone(t, InitEnv)
  \/ \E t \in InitEnv.tasks : CloseDone(t, InitEnv)
  \/ \E t \in InitEnv.tasks : EnrichStep(t, InitEnv)
  \/ \E t \in InitEnv.tasks : Db4Step(t, InitEnv)
  \/ \E t \in InitEnv.tasks : Db4Fallback(t, InitEnv)
  \/ \E t \in InitEnv.tasks : Db5Step(t, InitEnv)
  \/ \E t \in InitEnv.tasks : Db6Step(t, InitEnv)

SpecInit == Init /\ [][NextInit]_vars

\* the same query asked again and again in both languages
NextRepeat ==
  \/ \E t \in RepeatEnv.tasks : Start(t, RepeatEnv)
  \/ \E t \in RepeatEnv.tasks : LoadDone(t, RepeatEnv)
  \/ \E t \in RepeatEnv.tasks : CloseDone(t, RepeatEnv)
  \/ \E t \in RepeatEnv.tasks : EnrichStep(t, RepeatEnv)
  \/ \E t \in RepeatEnv.tasks : Db4Step(t, RepeatEnv)

SpecRepeat == Init /\ [][NextRepeat]_vars

\* code queries and reordered words
NextScenario ==
  \/ \E t \in ScenarioEnv.tasks : Start(t, ScenarioEnv)
  \/ \E t \in ScenarioEnv.tasks : LoadDone(t, ScenarioEnv)
  \/ \E t \in ScenarioEnv.tasks : CloseDone(t, ScenarioEnv)
  \/ \E t \in ScenarioEnv.tasks : EnrichStep(t, ScenarioEnv)
  \/ \E t \in ScenarioEnv.tasks : Db4Step(t, ScenarioEnv)
  \/ \E t \in ScenarioEnv.tasks : Db4Fallback(t, ScenarioEnv)
  \/ \E t \in ScenarioEnv.tasks : Db5Step(t, ScenarioEnv)
  \/ \E t \in ScenarioEnv.tasks : Db6Step(t, ScenarioEnv)

SpecScenario == Init /\ [][NextScenario]_vars

\* one search for each of the queries of ExpandEnv
NextExpand ==
  \/ \E t \in ExpandEnv.tasks : Start(t, ExpandEnv)
  \/ \E t \in ExpandEnv.tasks : LoadDone(t, ExpandEnv)
  \/ \E t \in ExpandEnv.tasks : CloseDone(t, ExpandEnv)
  \/ \E t \in ExpandEnv.tasks : EnrichStep(t, ExpandEnv)
  \/ \E t \in ExpandEnv.tasks : Db4Step(t, ExpandEnv)
  \/ \E t \in ExpandEnv.tasks : Db4Fallback(t, ExpandEnv)
  \/ \E t \in ExpandEnv.tasks : Db5Step(t, ExpandEnv)
  \/ \E t \in ExpandEnv.tasks : Db6Step(t, ExpandEnv)

SpecExpand == Init /\ [][NextExpand]_vars

\* ------------------------------------------------------------------------
\* The category filter applied to arbitrary result lists
\* ------------------------------------------------------------------------
\* the results a search stage can hand to the filter
FilterPool == {Item(r.code, r.description, 0) : r \in {RowGlass, RowPolimer, RowSteel, RowTomato}}

RECURSIVE ListsUpTo(_, _)
\* the lists of at most n elements of S
ListsUpTo(S, n) ==
  IF n = 0 THEN {<<>>}
  ELSE LET shorter == ListsUpTo(S, n - 1)
       IN shorter \cup {Append(l, x) : l \in {s \in shorter : Len(s) = n - 1}, x \in S}

\* a glass, a metal and a plastic query, and one without a category
FilterQueries == {<<"men", SP, "steklo">>, <<"stalj">>, <<"polimer">>, <<"xyz">>}

FilterInit ==
  /\ repo = AllRows
  /\ predictor = NewPredictor
  /\ embedding = "sharp"
  /\ search_cache = <<>>
  /\ last_cache_cleanup = 0
  /\ now = 0
  /\ req = [t \in Tasks |-> IdleReq]
  /\ calls = 0
  /\ loads = 0
  /\ builds = 0
  /\ faults = 0
  /\ stale = FALSE
  /\ prev = Nothing
  /\ answers = {}
  /\ f_results \in ListsUpTo(FilterPool, MaxFilterLen)
  /\ f_query \in FilterQueries
  /\ f_out = <<>>
  /\ f_pc = "ready"
  /\ s_in = <<>>
  /\ s_out = <<>>
  /\ s_pc = "off"
  /\ RecoveryOff
  /\ MainOff

\* a caller applies filter_results_by_category(results, query)
FilterApply ==
  /\ f_pc = "ready"
  /\ f_out' = filter_results_by_category(f_results, f_query)
  /\ f_pc' = "done"
  /\ UNCHANGED <<engineVars, f_results, f_query, scoreVars, recoveryVars, mainVars>>

FilterNext == FilterApply

SpecFilter == FilterInit /\ [][FilterNext]_vars

\* C7: once the filter was applied, its output is empty only if its input was
\* empty: a non-empty input gives a non-empty output, every result of the output
\* is a result of the input, and an empty input gives an empty output.
FilterNeverEmpties ==
  f_pc = "done" =>
    /\ f_results # <<>> => f_out # <<>>
    /\ f_results = <<>> => f_out = <<>>
    /\ Range(f_out) \subseteq Range(f_results)
    /\ Len(f_out) <= Len(f_results)

\* a glass query whose four results are all plastics: the strict and the relaxed
\* pass keep nothing and the first three results come back
FilterLastResortReached ==
  /\ f_pc = "done"
  /\ detect_query_category(f_query) = "glass"
  /\ Len(f_results) = 4
  /\ \A i \in 1..4 : StrictKeep(f_results[i], "glass") = FALSE
                     /\ ShouldExclude(f_results[i], "glass")
  /\ f_out = Take(f_results, 3)

\* ------------------------------------------------------------------------
\* Properties of the search engine and of smart_search
\* ------------------------------------------------------------------------
\* C1: when enhanced_predict_code answers a (query, lang) that the search completed
\* just before it had also answered, the answer is flagged as a cache hit and has
\* the same status and the same best_match code as that previous answer.
CacheIdempotence ==
  \A t \in Tasks :
    (req[t].enh # Nothing /\ req[t].expect # Nothing) =>
      /\ req[t].enh[1].from_cache
      /\ req[t].enh[1].status = req[t].expect[1].status
      /\ BestCode(req[t].enh[1]) = req[t].expect[1].best

\* ------------------------------------------------------------------------
\* Code validity
\* ------------------------------------------------------------------------
\* best_match, then top_similar in order
ResponseCandidates(resp) == resp.best_match \o resp.top_similar

\* C2: every code in best_match or top_similar of the response the engine gave to
\* a request is a string of exactly 4, 6, 8 or 10 digits, and quick_code_lookup
\* finds it in the table.
CodeValidity ==
  \A t \in Tasks :
    req[t].enh # Nothing =>
      \A i \in 1..Len(ResponseCandidates(req[t].enh[1])) :
        /\ is_valid_hs_code(ResponseCandidates(req[t].enh[1])[i].code)
        /\ quick_code_lookup(repo, ResponseCandidates(req[t].enh[1])[i].code) # Nothing

\* ------------------------------------------------------------------------
\* The order of the stages
\* ------------------------------------------------------------------------
\* the place of every stage in the cascade
StagePlace ==
  [cache |-> 1, exact |-> 2, hybrid |-> 3, category_db |-> 4, segment |-> 5, keyword |-> 6,
   not_found |-> 7]

EngineStages == {"exact", "hybrid"}

RepositoryStages == {"category_db", "segment", "keyword", "not_found"}

Confident == {"high_confidence", "medium_confidence"}

Retrieved(rq) == rq.pending \o rq.enriched

EngineVisits(rq) ==
  {i \in 1..Len(rq.trace) : rq.trace[i].stage \in EngineStages \cup {"cache"}}

BuildOnce == (faults = 0 /\ repo # {}) => (loads <= 1 /\ builds <= 1)

\* C6: no call of smart_search ends with an exception that leaves it.
NoExceptionEscapes == \A t \in Tasks : req[t].pc # "raised"

\* the request holds the response to a search it made itself
Searched(rq) == rq.enh # Nothing /\ rq.pending = <<>> /\ rq.enriched # <<>>

SomeValidated(rq) == \E i \in 1..Len(rq.enriched) : rq.enriched[i].validated = "true"

OrderedByScore ==
  \A t \in Tasks :
    /\ req[t].enh # Nothing =>
         \A i \in 1..Len(ResponseCandidates(req[t].enh[1])) :
           \A j \in 1..Len(ResponseCandidates(req[t].enh[1])) :
             i < j => ResponseCandidates(req[t].enh[1])[i].relevance_score
                        >= ResponseCandidates(req[t].enh[1])[j].relevance_score
    /\ req[t].result # Nothing =>
         \A i \in 1..Len(req[t].result[1].results) :
           \A j \in 1..Len(req[t].result[1].results) :
             i < j => req[t].result[1].results[i].desc_score
                        >= req[t].result[1].results[j].desc_score

\* a response of the engine and a result list of smart_search with candidates of
\* different scores
DifferentScoresListed ==
  \E t \in Tasks :
    /\ req[t].enh # Nothing
    /\ Len(ResponseCandidates(req[t].enh[1])) >= 2
    /\ ResponseCandidates(req[t].enh[1])[1].relevance_score
         > ResponseCandidates(req[t].enh[1])[2].relevance_score
    /\ req[t].result # Nothing
    /\ Len(req[t].result[1].results) >= 2

\* C10: while the catalog, the indexes and the table stay as they are and no
\* provider call raises, two calls of smart_search with the same query and language
\* get the same response of the engine (the from_cache flag aside) and the same
\* result: the same candidates in the same order with the same scores and status.
Determinism ==
  (faults = 0 /\ ~stale) =>
    \A a \in answers : \A b \in answers :
      (a.query = b.query /\ a.lang = b.lang) => a = b

\* the same query was answered from the cache and, in the other language, by a search
AnsweredTwice ==
  /\ faults = 0
  /\ ~stale
  /\ Cardinality(answers) >= 2
  /\ \E t \in Tasks : req[t].enh # Nothing /\ req[t].enh[1].from_cache /\ req[t].clean
                      /\ req[t].pc = "done" /\ Answer(req[t]) \in answers

\* ------------------------------------------------------------------------
\* Confidence bands
\* ------------------------------------------------------------------------
\* the score of the candidate the validation handed back first (lines 1112-1125),
\* -1 when the search had no candidate
WinningScore(rq) ==
  IF rq.enriched = <<>> THEN -1 ELSE ValidOrAll(rq.enriched)[1].relevance_score

\* the status of each band of the winning score
Band(s) ==
  IF s >= 8500 THEN "high_confidence"
  ELSE IF s >= 7000 THEN "medium_confidence"
  ELSE IF s >= 5500 THEN "low_confidence"
  ELSE IF s >= 1000 THEN "not_found_with_suggestions"
  ELSE "not_found"

\* the request holds the response of a search the engine made for it
FreshSearch(rq) ==
  rq.enh # Nothing /\ ~rq.enh[1].from_cache /\ Strip(rq.query) # <<>>

\* C11: the status of the response to a search is the band of the winning score s
\* alone: s >= 0.85 high_confidence, 0.70 <= s < 0.85 medium_confidence,
\* 0.55 <= s < 0.70 low_confidence, 0.10 <= s < 0.55 not_found_with_suggestions,
\* s < 0.10 or no candidate not_found; a best match is given exactly from 0.55 on,
\* it is the winning candidate, and the confidence is its score.
ConfidenceBands ==
  \A t \in Tasks :
    FreshSearch(req[t]) =>
      /\ req[t].enh[1].status = Band(WinningScore(req[t]))
      /\ req[t].enh[1].best_match # <<>> <=> WinningScore(req[t]) >= 5500
      /\ req[t].enh[1].best_match # <<>> =>
           /\ req[t].enh[1].best_match[1].relevance_score = WinningScore(req[t])
           /\ req[t].enh[1].confidence = WinningScore(req[t])

\* a search whose winning score lies in the band from 0.55 to 0.70
LowBandAnswered ==
  \E t \in Tasks :
    /\ FreshSearch(req[t])
    /\ WinningScore(req[t]) >= 5500
    /\ WinningScore(req[t]) < 7000
    /\ req[t].enh[1].status = "low_confidence"

\* ------------------------------------------------------------------------
\* Status vocabulary and input errors
\* ------------------------------------------------------------------------
\* the statuses the specification lists for a response of the engine
SpecifiedStatuses ==
  {"high_confidence", "medium_confidence", "low_confidence", "not_found_with_suggestions",
   "not_found", "system_error"}

\* C12: the status of every response enhanced_search_product returned to a
\* request, on every path (cache hit, blank query, search), is one of
\* high_confidence, medium_confidence, low_confidence, not_found_with_suggestions,
\* not_found, system_error.
StatusVocabulary ==
  \A t \in Tasks :
    req[t].enh # Nothing => req[t].enh[1].status \in SpecifiedStatuses

\* the request carries an empty or whitespace-only query and its own
\* initialization has returned
BlankRequest(rq) == Strip(rq.query) = <<>> /\ rq.pc \notin {"idle", "load", "close"}

ErrorStatuses == {"error", "system_error"}

ScoreRange ==
  \A t \in Tasks :
    req[t].enh # Nothing =>
      /\ req[t].enh[1].confidence >= 0
      /\ req[t].enh[1].confidence <= 10000
      /\ \A i \in 1..Len(ResponseCandidates(req[t].enh[1])) :
           /\ ResponseCandidates(req[t].enh[1])[i].relevance_score >= 0
           /\ ResponseCandidates(req[t].enh[1])[i].relevance_score <= 10000

\* all_results of the search of request rq (line 1095) while no provider call
\* has raised: what every variant produced, before the deduplication
Produced(rq) ==
  AllResults(PerVariant(predictor, embedding, expand_query_with_corrections(Strip(rq.query)),
                        Strip(rq.query), rq.lang, {}), 1)

\* C14: no code occurs twice among the candidates a search keeps after the
\* deduplication, and the codes of best_match and of the top_similar entries of
\* every response are pairwise distinct.
DedupUnique ==
  \A t \in Tasks :
    /\ \A i \in 1..Len(Retrieved(req[t])) :
         \A j \in 1..Len(Retrieved(req[t])) :
           i # j => Retrieved(req[t])[i].code # Retrieved(req[t])[j].code
    /\ req[t].enh # Nothing =>
         \A i \in 1..Len(ResponseCandidates(req[t].enh[1])) :
           \A j \in 1..Len(ResponseCandidates(req[t].enh[1])) :
             i # j => ResponseCandidates(req[t].enh[1])[i].code
                        # ResponseCandidates(req[t].enh[1])[j].code

\* a search produced some code more than once and its response lists several codes
DuplicatesDropped ==
  \E t \in Tasks :
    /\ faults = 0
    /\ FreshSearch(req[t])
    /\ Len(Produced(req[t])) > Len(Retrieved(req[t]))
    /\ Retrieved(req[t]) # <<>>
    /\ Len(ResponseCandidates(req[t].enh[1])) >= 2

\* C15: when a search produced the same code more than once, by several variants
\* of the query or by the exact and the hybrid retrieval, the candidate kept for
\* that code has the highest relevance score among those duplicates.
DedupKeepsBest ==
  \A t \in Tasks :
    (faults = 0 /\ FreshSearch(req[t])) =>
      \A i \in 1..Len(Retrieved(req[t])) :
        \A j \in 1..Len(Produced(req[t])) :
          Produced(req[t])[j].code = Retrieved(req[t])[i].code =>
            Retrieved(req[t])[i].relevance_score >= Produced(req[t])[j].relevance_score

\* ------------------------------------------------------------------------
\* Exact-code scenario
\* ------------------------------------------------------------------------
\* the query of the request is ten digits that are the code of a catalog row
CodeQuery(rq) ==
  /\ IsTenDigits(Strip(rq.query))
  /\ predictor.df_system # Nothing
  /\ \E i \in 1..Len(predictor.df_system[1]) :
       predictor.df_system[1][i].code = CodeOf(Strip(rq.query)[1])

\* the retrieval of lines 1010-1093 ran for a variant of the request
HybridRan(rq) == \E i \in 1..Len(rq.trace) : rq.trace[i].stage = "hybrid"

\* C16: a search without provider failure whose query is ten digits equal to a
\* catalog code answers high_confidence with that code as best match, produced by
\* the exact-match stage, and the lexical and semantic retrieval did not run for it.
ExactCodeBypass ==
  \A t \in Tasks :
    (faults = 0 /\ FreshSearch(req[t]) /\ CodeQuery(req[t])) =>
      /\ req[t].enh[1].status = "high_confidence"
      /\ req[t].enh[1].best_match # <<>>
      /\ req[t].enh[1].best_match[1].code = CodeOf(Strip(req[t].query)[1])
      /\ req[t].enh[1].best_match[1].search_type = "exact_code"
      /\ ~HybridRan(req[t])

\* ------------------------------------------------------------------------
\* Nonsense-query scenario
\* ------------------------------------------------------------------------
\* the words of a text, as written and as lemmas
WordsOf(text) ==
  Range(Split(normalize_text(text))) \cup Range(Split(lemmatize_text(normalize_text(text))))

\* no variant of the query shares a word with a description of the table, and the
\* category tables of the scoring know no product in it
NonsenseQuery(rq) ==
  /\ Strip(rq.query) # <<>>
  /\ \A i \in 1..Len(expand_query_with_corrections(Strip(rq.query))) : \A row \in AllRows :
       LET variant == expand_query_with_corrections(Strip(rq.query))[i]
           code_prefix == Take(zfill(row.code, 10), 4)
       IN /\ WordsOf(variant) \cap WordsOf(row.description) = {}
          /\ SpecificCategory(Lower(normalize_text(variant)), code_prefix,
               GenericCategory(Lower(normalize_text(variant)), code_prefix)).boost = 0

\* C17: a search without provider failure for a query that overlaps no catalog
\* description answers not_found with no best match and no candidate, and the call
\* neither raises nor answers an error status.
NonsenseNotFound ==
  \A t \in Tasks :
    (faults = 0 /\ NonsenseQuery(req[t])) =>
      /\ req[t].pc # "raised"
      /\ FreshSearch(req[t]) =>
           /\ req[t].enh[1].status = "not_found"
           /\ req[t].enh[1].best_match = <<>>
           /\ req[t].enh[1].top_similar = <<>>

\* ------------------------------------------------------------------------
\* The result cache under searches, cleanups and the clock
\* ------------------------------------------------------------------------
\* the n-th distinct query the cache meets
CacheQuery(n) == <<n>>

\* when the key of an entry entered the cache: the number of its query
Stamp(key) == key[1][1]

\* the query no entry was stored for yet
FreshQuery(c) == IF c = <<>> THEN CacheQuery(1) ELSE CacheQuery(Stamp(c[Len(c)].key) + 1)

\* the queries a search stores a response for: a new one, or the latest again
CacheInputs(c) == {FreshQuery(c)} \cup (IF c = <<>> THEN {} ELSE {c[Len(c)].key[1]})

CacheInit ==
  /\ Init
  /\ repo = AllRows
  /\ embedding = "sharp"

\* get_cached_result lines 244-251: the cleanup, then the read
CacheLookup ==
  /\ \E cl \in {cleanup_memory_cache(search_cache, last_cache_cleanup, now)} :
       /\ search_cache' = cl.cache
       /\ last_cache_cleanup' = cl.last
  /\ UNCHANGED <<repo, predictor, embedding, now, req, calls, loads, builds, faults,
                 stale, prev, answers, filterVars, scoreVars, recoveryVars, mainVars>>

\* cache_result lines 253-263 at the end of a search (line 1184)
CacheStore ==
  /\ \E query \in CacheInputs(search_cache) :
       /\ query[1] <= MaxCacheKeys
       /\ search_cache' = cache_result(search_cache, query, "ru",
                                       BuildResponse(<<>>, query))
  /\ UNCHANGED <<repo, predictor, embedding, last_cache_cleanup, now, req, calls, loads,
                 builds, faults, stale, prev, answers, filterVars, scoreVars, recoveryVars, mainVars>>

\* time.time() moves on
CacheTick ==
  /\ now < MaxClock
  /\ now' = now + ClockStep
  /\ UNCHANGED <<repo, predictor, embedding, search_cache, last_cache_cleanup, req, calls,
                 loads, builds, faults, stale, prev, answers, filterVars, scoreVars, recoveryVars, mainVars>>

CacheNext ==
  \/ CacheLookup
  \/ CacheStore
  \/ CacheTick

SpecCache == CacheInit /\ [][CacheNext]_vars

\* C19: whatever the order of stores, cleanups and clock ticks, the cache never
\* holds more than _cache_max_size = 200 entries.
CacheBounded == Len(search_cache) <= cache_max_size

\* the cache is full after a store that removed the oldest entry
CacheFullAfterEviction ==
  /\ Len(search_cache) = cache_max_size
  /\ Stamp(search_cache[1].key) > 1
  /\ last_cache_cleanup = 0

\* the keys a step removes from the cache
Dropped == CacheKeys(search_cache) \ CacheKeys(search_cache')

Responded(t) ==
  /\ req'[t].enh # Nothing
  /\ req[t].enh = Nothing \/ req[t].pc \in {"idle", "done", "raised"}

FailureStatuses == {"system_error", "error", "not_found"}

\* C21: a call of enhanced_predict_code that ends in a failure response
\* (system_error, the error of a blank query, or not_found) leaves the cache as it
\* was; only a successful response creates a cache entry.
CacheOnlyOnSuccess ==
  [][\A t \in Tasks :
       (Responded(t) /\ req'[t].enh[1].status \in FailureStatuses)
         => search_cache' = search_cache]_vars

\* ------------------------------------------------------------------------
\* A search that its caller abandons
\* ------------------------------------------------------------------------
\* a cancellation that stores what the request has so far
AbandonStoring(t) ==
  /\ req[t].pc \in Computing
  /\ ~req[t].uninit
  /\ req' = [req EXCEPT ![t].pc = "abandoned"]
  /\ search_cache' = cache_result(search_cache, Strip(req[t].query), req[t].lang,
                                  BuildResponse(req[t].enriched, Strip(req[t].query)))
  /\ UNCHANGED <<repo, predictor, embedding, last_cache_cleanup, now, calls, loads,
                 builds, faults, stale, prev, answers, filterVars, scoreVars, recoveryVars, mainVars>>

\* task.cancel() while smart_search, started on a built engine, is suspended in
\* an await: CancelledError passes every "except Exception" and leaves the call
Abandon(t) ==
  /\ req[t].pc \in Computing
  /\ ~req[t].uninit
  /\ req' = [req EXCEPT ![t].pc = "abandoned"]
  /\ UNCHANGED <<repo, predictor, embedding, search_cache, last_cache_cleanup, now, calls,
                 loads, builds, faults, stale, prev, answers, filterVars, scoreVars, recoveryVars, mainVars>>

NextAbandon ==
  \/ \E t \in Env.tasks : Start(t, Env)
  \/ \E t \in Env.tasks : LoadDone(t, Env)
  \/ \E t \in Env.tasks : CloseDone(t, Env)
  \/ \E t \in Env.tasks : EnrichStep(t, Env)
  \/ \E t \in Env.tasks : Db4Step(t, Env)
  \/ \E t \in Env.tasks : Db4Fallback(t, Env)
  \/ \E t \in Env.tasks : Db5Step(t, Env)
  \/ \E t \in Env.tasks : Db6Step(t, Env)
  \/ \E t \in Env.tasks : Abandon(t)

SpecAbandon == Init /\ [][NextAbandon]_vars

\* the indexes are built and no initialization is under way
IndexesBuilt == predictor.initialized /\ \A t \in Tasks : req[t].pc \notin {"load", "close"}

\* the catalog, both indexes, the model handle and the table stay as they are
SharedStateKept == predictor' = predictor /\ embedding' = embedding /\ repo' = repo

\* the request stored the response of its search in the cache
WroteEntry(rq) ==
  rq.enh # Nothing /\ ~rq.enh[1].from_cache /\ rq.enh[1].status \notin {"error", "system_error"}

ValidVariants(query_clean) ==
  SelectSeq(expand_query_with_corrections(query_clean),
            LAMBDA v : contains_valid_word(normalize_text(v)))

\* what the hybrid stage yielded for each of them, as the request saw it
HybridYields(rq) ==
  LET visits == SelectSeq(rq.trace, LAMBDA v : v.stage = "hybrid")
  IN [k \in 1..Len(visits) |-> visits[k].yield]

\* the TF-IDF hits of line 1013 for a variant
LexicalHits(p, variant, lang) ==
  tfidf_search(p, remove_stopwords(lemmatize_text(normalize_text(variant)), lang), 100)

\* the engine the request searched is the one at hand, with both indexes usable
SearchedThisEngine(rq) ==
  /\ FreshSearch(rq)
  /\ rq.clean /\ ~stale
  /\ predictor.initialized /\ FaissUsable(predictor)

\* C23: when the embedding call fails for a variant only the semantic source is
\* skipped: every TF-IDF hit of the variant is still scored and is among the
\* candidates of that variant, next to its exact matches.
LexicalSurvivesFailure ==
  \A t \in Tasks :
    SearchedThisEngine(req[t]) =>
      \A k \in 1..Len(HybridYields(req[t])) :
        HybridYields(req[t])[k] >=
          Len(LexicalHits(predictor, ValidVariants(Strip(req[t].query))[k], req[t].lang))

\* ------------------------------------------------------------------------
\* The query expander
\* ------------------------------------------------------------------------
\* the request asks with at least two non-blank characters
Expandable(rq) == rq.pc # "idle" /\ StrLen(Strip(rq.query)) >= 2

NoRepeat(s) == \A i, j \in 1..Len(s) : i # j => s[i] # s[j]

Searchable(rq) ==
  /\ rq.pc # "idle" /\ Strip(rq.query) # <<>>
  /\ predictor.initialized /\ FaissUsable(predictor)

\* the candidates of variant i of the query, as lines 992-1098 score them
VariantCandidates(rq, i) ==
  LET query_clean == Strip(rq.query)
      variants == expand_query_with_corrections(query_clean)
  IN VariantResults(predictor, embedding, variants[i], query_clean, rq.lang, FALSE)

\* the same candidates with the comparison of line 1058 finding the variant equal
\* to the query: no penalty
UnpenalizedCandidates(rq, i) ==
  LET variants == expand_query_with_corrections(Strip(rq.query))
  IN VariantResults(predictor, embedding, variants[i], variants[i], rq.lang, FALSE)

Penalized(score) == (score * 95) \div 100

\* C25: the factor 0.95 is applied to a candidate exactly when it was found through
\* a variant other than the original query, which the expander lists last;
\* candidates of the original query are never penalized, whatever its letter case.
VariantPenalty ==
  \A t \in Tasks :
    Searchable(req[t]) =>
      LET n == Len(expand_query_with_corrections(Strip(req[t].query)))
      IN \A i \in 1..n : \A j \in 1..Len(VariantCandidates(req[t], i)) :
           VariantCandidates(req[t], i)[j].relevance_score =
             IF i = n THEN UnpenalizedCandidates(req[t], i)[j].relevance_score
             ELSE Penalized(UnpenalizedCandidates(req[t], i)[j].relevance_score)

\* ------------------------------------------------------------------------
\* calculate_enhanced_relevance_score applied to one catalog entry under
\* several codes
\* ------------------------------------------------------------------------
Code4(a, b, c, d) == <<a, b, c, d, "0", "0", "0", "0", "0", "0">>

TomatoCode == Code4("0", "7", "0", "2")
CucumberCode == Code4("0", "7", "0", "7")
OtherVegCode == Code4("0", "7", "0", "9")
FruitCode == Code4("0", "8", "0", "6")
MeatCode == Code4("0", "2", "0", "1")
SteelCode == Code4("7", "2", "1", "6")

ScoreCodes == {TomatoCode, CucumberCode, OtherVegCode, FruitCode, MeatCode, SteelCode}

RECURSIVE Repeat(_, _)
Repeat(t, n) == IF n = 0 THEN <<>> ELSE t \o Repeat(t, n - 1)

\* a description of more than 150 characters
LongDescription == Repeat(<<"steklo", SP, "listovoe", SP>>, 10) \o <<"polimer">>

ScoreQueries ==
  {<<"pomidory">>, <<"tomaty", SP, "svezhie">>, <<"pomidory", SP, "xyz", SP, "men">>,
   <<"ogurets">>, <<"ogurtsy", SP, "kornishon">>, <<"vinograd">>, <<"izyum">>,
   <<"gipsokarton">>, <<"xyz">>}

ScoreDescriptions ==
  {<<"tomaty", SP, "svezhie">>, <<"ogurtsy", SP, "svezhie">>, <<"steklo", SP, "listovoe">>,
   LongDescription}

\* inner products of unit vectors, times 10000
ScoreSimilarities == {0, 500, 3000, 6000, 9500, 10000}

\* lines 1042-1051: the score of the catalog entry (code, description) for a
\* variant, as the hybrid loop computes it
ScoreOf(query, description, semantic_score, code) ==
  LET query_norm == normalize_text(query)
      query_lemmas_no_stop == remove_stopwords(lemmatize_text(query_norm), "ru")
  IN calculate_enhanced_relevance_score(query_norm, query_lemmas_no_stop,
       normalize_text(description), DescClean(description), semantic_score,
       Len(Split(query_lemmas_no_stop)), StrLen(description), code)

ScoreInit ==
  /\ repo = AllRows
  /\ predictor = NewPredictor
  /\ embedding = "sharp"
  /\ search_cache = <<>>
  /\ last_cache_cleanup = 0
  /\ now = 0
  /\ req = [t \in Tasks |-> IdleReq]
  /\ calls = 0
  /\ loads = 0
  /\ builds = 0
  /\ faults = 0
  /\ stale = FALSE
  /\ prev = Nothing
  /\ answers = {}
  /\ f_results = <<>>
  /\ f_query = <<>>
  /\ f_out = <<>>
  /\ f_pc = "off"
  /\ s_in \in [query : ScoreQueries, description : ScoreDescriptions,
               semantic_similarity : ScoreSimilarities]
  /\ s_out = <<>>
  /\ s_pc = "ready"
  /\ RecoveryOff
  /\ MainOff

\* the scoring loop scores the entry under each code
ScoreApply ==
  /\ s_pc = "ready"
  /\ s_out' = [c \in ScoreCodes |->
                 ScoreOf(s_in.query, s_in.description, s_in.semantic_similarity, c)]
  /\ s_pc' = "done"
  /\ UNCHANGED <<engineVars, filterVars, s_in, recoveryVars, mainVars>>

ScoreNext == ScoreApply

SpecScore == ScoreInit /\ [][ScoreNext]_vars

IsTomatoQuery(query) == AnyKw({"tomat", "pomidor"}, Lower(normalize_text(query)))

AtSameBound(a, b) == (a = 0 /\ b = 0) \/ (a = 10000 /\ b = 10000)

OverridePenaltyApplies(query_lower, code_prefix) ==
  \/ /\ AnyKw({"tomat", "pomidor"}, query_lower)
     /\ \/ StartsWith(code_prefix, <<"0", "7", "0", "7">>)
        \/ StartsWith(code_prefix, <<"0", "8">>)
        \/ StartsWith(code_prefix, <<"0", "2">>)
  \/ /\ AnyKw({"ogurets", "kornishon"}, query_lower)
     /\ StartsWith(code_prefix, <<"0", "7", "0", "2">>)
  \/ /\ AnyKw({"vinograd", "izyum"}, query_lower)
     /\ StartsWith(code_prefix, <<"0", "2">>)
  \/ /\ KwIn("gipsokarton", query_lower)
        \/ (KwIn("profil", query_lower) /\ KwIn("otsinkov", query_lower))
     /\ \/ StartsWith(code_prefix, <<"0", "7">>)
        \/ StartsWith(code_prefix, <<"0", "8">>)

\* C27: for every scored query and code for which a specific override assigns
\* a penalty, the category penalty finally applied is strictly greater than the
\* penalty of the generic rules for the same query and code, and no category
\* boost is applied together with it.
SpecificOverrideBeatsGeneric ==
  s_pc = "done" =>
    \A c \in ScoreCodes :
      LET query_lower == Lower(normalize_text(s_in.query))
          code_prefix == Take(c, 4)
          generic == GenericCategory(query_lower, code_prefix)
          applied == SpecificCategory(query_lower, code_prefix, generic)
      IN OverridePenaltyApplies(query_lower, code_prefix) =>
           /\ applied.penalty > generic.penalty
           /\ applied.boost = 0

\* ------------------------------------------------------------------------
\* detect_query_category applied to arbitrary queries
\* ------------------------------------------------------------------------
DetectWords == {"steklo", "STEKLO", "stalj", "polimer", "hlopok", "fanera", "eda", "sreda",
                "pomidory", "xyz"}

\* the queries of one word and of two words
DetectQueries ==
  {<<w>> : w \in DetectWords} \cup {<<v, SP, w>> : v \in DetectWords, w \in DetectWords}

DetectInit ==
  /\ repo \in InitialRepos
  /\ predictor = NewPredictor
  /\ embedding \in EmbeddingModels
  /\ search_cache = <<>>
  /\ last_cache_cleanup = 0
  /\ now = 0
  /\ req = [t \in Tasks |-> IdleReq]
  /\ calls = 0
  /\ loads = 0
  /\ builds = 0
  /\ faults = 0
  /\ stale = FALSE
  /\ prev = Nothing
  /\ answers = {}
  /\ f_results = <<>>
  /\ f_query = <<>>
  /\ f_out = <<>>
  /\ f_pc = "off"
  /\ s_in \in DetectQueries
  /\ s_out = <<>>
  /\ s_pc = "ready"
  /\ RecoveryOff
  /\ MainOff

\* a caller applies detect_query_category(query)
DetectApply ==
  /\ s_pc = "ready"
  /\ s_out' = detect_query_category(s_in)
  /\ s_pc' = "done"
  /\ UNCHANGED <<engineVars, filterVars, s_in, recoveryVars, mainVars>>

DetectNext == DetectApply

SpecDetect == DetectInit /\ [][DetectNext]_vars

\* a keyword of the category is a substring of the lower-cased query
CategoryHit(category, query) ==
  \E k \in PRODUCT_CATEGORIES[category].keywords :
    \E i \in 1..Len(query) : query[i] # SP /\ k \in Sub(LowerWord(query[i]))

\* C28: the value of detect_query_category is the first category, in the order
\* glass, metal, plastic, textile, wood, food, one of whose keywords is a
\* substring of the lower-cased query; it is None exactly when no category has
\* one; it is the same whatever the repository and the embedding model are.
FirstCategoryWins ==
  s_pc = "done" =>
    LET hits == {i \in 1..6 : CategoryHit(CategoryOrder[i], s_in)}
    IN /\ CategoryOrder = <<"glass", "metal", "plastic", "textile", "wood", "food">>
       /\ (s_out = None) <=> (hits = {})
       /\ hits # {} => /\ s_out \in Range(CategoryOrder)
                       /\ \E i \in hits : /\ s_out = CategoryOrder[i]
                                          /\ \A j \in hits : i <= j

\* a query with keywords of two categories, the later category named first,
\* and one whose keyword is typed in upper case
TwoCategoriesDetected ==
  /\ s_pc = "done"
  /\ s_in = <<"polimer", SP, "STEKLO">>
  /\ s_out = "glass"

\* a visit of the per-word keyword fallback that yielded nothing
KeywordTriedInVain(trace) ==
  \E i \in 1..Len(trace) : trace[i].stage = "keyword" /\ trace[i].yield = 0

\* C29: a request answered not_found has visited the per-word keyword fallback,
\* and the fallback yielded nothing, whatever the query.
NotFoundOnlyAfterKeywordFallback ==
  \A t \in Tasks :
    (req[t].result # Nothing /\ req[t].result[1].status = "not_found")
      => KeywordTriedInVain(req[t].trace)

\* ------------------------------------------------------------------------
\* _enrich_with_database_info applied to one result whose snapshot and
\* repository descriptions differ in length
\* ------------------------------------------------------------------------
\* word counts of the snapshot descriptions (7n - 1 characters)
SnapshotWordCounts == {1, 2, 4, 7, 8, 9, 12, 15, 16, 17, 20, 30}

\* word counts of the repository descriptions (8m - 1 characters)
RepositoryWordCounts == {1, 2, 4, 6, 7, 8, 10, 15}

SnapshotDescription(n) == Join([i \in 1..n |-> "steklo"])

RepositoryDescription(m) == Join([i \in 1..m |-> "polimer"])

EnrichInit ==
  /\ repo \in {{}} \cup {{[code |-> TomatoCode, description |-> RepositoryDescription(m)]} :
                           m \in RepositoryWordCounts}
  /\ predictor = NewPredictor
  /\ embedding = "sharp"
  /\ search_cache = <<>>
  /\ last_cache_cleanup = 0
  /\ now = 0
  /\ req = [t \in Tasks |-> IdleReq]
  /\ calls = 0
  /\ loads = 0
  /\ builds = 0
  /\ faults = 0
  /\ stale = FALSE
  /\ prev = Nothing
  /\ answers = {}
  /\ f_results = <<>>
  /\ f_query = <<>>
  /\ f_out = <<>>
  /\ f_pc = "off"
  /\ s_in \in {Cand(TomatoCode, SnapshotDescription(n), 8000, "hybrid") :
                 n \in SnapshotWordCounts}
  /\ s_out = <<>>
  /\ s_pc = "ready"
  /\ RecoveryOff
  /\ MainOff

\* lines 904-946 for the result s_in: the lookup and the reconciliation
EnrichApply ==
  /\ s_pc = "ready"
  /\ s_out' = EnrichOne(s_in, quick_code_lookup(repo, s_in.code), FALSE)
  /\ s_pc' = "done"
  /\ UNCHANGED <<engineVars, filterVars, s_in, recoveryVars, mainVars>>

EnrichNext == EnrichApply

SpecEnrich == EnrichInit /\ [][EnrichNext]_vars

\* the repository has the code of the enriched result, with another description
Reconciled ==
  /\ s_pc = "done"
  /\ quick_code_lookup(repo, s_in.code) # Nothing
  /\ quick_code_lookup(repo, s_in.code)[1].description # s_in.description

RepositoryText == quick_code_lookup(repo, s_in.code)[1].description

ZeroVector == <<"zeros">>

\* lines 700-727: the rows of the embedding matrix; batch_failed: the batch call
\* raised; failed_items: the positions whose _safe_encode raised after its retries
CatalogEmbeddings(df, batch_failed, failed_items) ==
  [i \in 1..Len(df) |->
     IF batch_failed /\ i \in failed_items THEN ZeroVector
     ELSE DescClean(df[i].description)]

\* a build that gives up when an entry cannot be encoded
BuildAbortingOnItem(p, batch_failed, failed_items) ==
  LET df == p.df_system[1]
  IN IF Len(df) = 0 THEN p
     ELSE IF batch_failed /\ failed_items \cap (1..Len(df)) # {}
     THEN [p EXCEPT !.index_to_data = IndexToData(p.index_to_data, df)]
     ELSE [p EXCEPT !.index_to_data = IndexToData(p.index_to_data, df),
                    !.index = Some(CatalogEmbeddings(df, FALSE, {}))]

\* _build_faiss_index, lines 672-740, when the index itself is built without error
build_faiss_index_encoding(p, batch_failed, failed_items) ==
  LET df == p.df_system[1]
  IN IF Len(df) = 0 THEN p
     ELSE [p EXCEPT !.index_to_data = IndexToData(p.index_to_data, df),
                    !.index = Some(CatalogEmbeddings(df, batch_failed, failed_items))]

BuildRows == {RowTomato, RowGlass, RowPolimer, RowSteel}

BuildPositions == 1..Cardinality(BuildRows)

BuildInit ==
  /\ repo \in SUBSET BuildRows
  /\ predictor = [NewPredictor EXCEPT !.model = "loaded", !.df_system = Some(LoadedFrame(repo))]
  /\ embedding = "sharp"
  /\ search_cache = <<>>
  /\ last_cache_cleanup = 0
  /\ now = 0
  /\ req = [t \in Tasks |-> IdleReq]
  /\ calls = 0
  /\ loads = 0
  /\ builds = 0
  /\ faults = 0
  /\ stale = FALSE
  /\ prev = Nothing
  /\ answers = {}
  /\ f_results = <<>>
  /\ f_query = <<>>
  /\ f_out = <<>>
  /\ f_pc = "off"
  /\ s_in \in [batch_failed : BOOLEAN, failed_items : SUBSET BuildPositions]
  /\ s_out = <<>>
  /\ s_pc = "ready"
  /\ RecoveryOff
  /\ MainOff

\* _async_init line 608: the semantic index is built from the loaded catalog
BuildApply ==
  /\ s_pc = "ready"
  /\ predictor' = build_faiss_index_encoding(predictor, s_in.batch_failed, s_in.failed_items)
  /\ s_out' = predictor'.index
  /\ s_pc' = "done"
  /\ UNCHANGED <<repo, embedding, search_cache, last_cache_cleanup, now, req, calls, loads,
                 builds, faults, stale, prev, answers, filterVars, s_in, recoveryVars, mainVars>>

BuildNext == BuildApply

SpecBuild == BuildInit /\ [][BuildNext]_vars

\* C31: after a build over a non-empty catalog the semantic index exists and
\* holds one vector per catalog entry, at the position of the entry; when the
\* batch call failed, the entries whose own encoding failed hold the zero vector
\* and every other entry holds its embedding.
DegradedBuildCompletes ==
  (s_pc = "done" /\ Len(predictor.df_system[1]) > 0) =>
    LET df == predictor.df_system[1]
    IN /\ predictor.index # Nothing
       /\ Len(predictor.index[1]) = Len(df)
       /\ Len(predictor.index_to_data) = Len(df)
       /\ \A i \in 1..Len(df) :
            /\ predictor.index_to_data[i].code = df[i].code
            /\ (s_in.batch_failed /\ i \in s_in.failed_items)
                 => predictor.index[1][i] = ZeroVector
            /\ ~(s_in.batch_failed /\ i \in s_in.failed_items)
                 => predictor.index[1][i] = DescClean(df[i].description)

\* a catalog of several entries built after the batch call failed, one entry
\* with a zero vector and one with its embedding
DegradedIndexBuilt ==
  /\ s_pc = "done"
  /\ s_in.batch_failed
  /\ Len(predictor.df_system[1]) > 1
  /\ predictor.index # Nothing
  /\ \E i, j \in 1..Len(predictor.index[1]) :
       /\ i \in s_in.failed_items
       /\ predictor.index[1][i] = ZeroVector
       /\ j \notin s_in.failed_items
       /\ predictor.index[1][j] # ZeroVector

\* ------------------------------------------------------------------------
\* The lemma-overlap score of calculate_enhanced_relevance_score
\* ------------------------------------------------------------------------
\* three core product terms and three descriptors
OverlapLemmas == <<"pomidor", "ogurets", "vinograd", "svezh", "stekl", "listov">>

\* ' '.join of the lemmas of S, in the order of OverlapLemmas
LemmaText(S) == Join(SelectSeq(OverlapLemmas, LAMBDA w : w \in S))

MaxQueryLemmas == 3
MaxDescLemmas == 3

LemmaSets(n) == {S \in SUBSET Range(OverlapLemmas) : Cardinality(S) <= n}

OverlapInit ==
  /\ repo = AllRows
  /\ predictor = NewPredictor
  /\ embedding = "sharp"
  /\ search_cache = <<>>
  /\ last_cache_cleanup = 0
  /\ now = 0
  /\ req = [t \in Tasks |-> IdleReq]
  /\ calls = 0
  /\ loads = 0
  /\ builds = 0
  /\ faults = 0
  /\ stale = FALSE
  /\ prev = Nothing
  /\ answers = {}
  /\ f_results = <<>>
  /\ f_query = <<>>
  /\ f_out = <<>>
  /\ f_pc = "off"
  /\ s_in \in {[query_lemmas_joined |-> LemmaText(Q), desc_lemmas_joined |-> LemmaText(D)] :
                 Q \in LemmaSets(MaxQueryLemmas), D \in LemmaSets(MaxDescLemmas)}
  /\ s_out = <<>>
  /\ s_pc = "ready"
  /\ RecoveryOff
  /\ MainOff

\* lines 461-490 of calculate_enhanced_relevance_score
OverlapApply ==
  /\ s_pc = "ready"
  /\ s_out' = WordOverlapScore(Range(Split(s_in.query_lemmas_joined)),
                               Range(Split(s_in.desc_lemmas_joined)))
  /\ s_pc' = "done"
  /\ UNCHANGED <<engineVars, filterVars, s_in, recoveryVars, mainVars>>

OverlapNext == OverlapApply

SpecOverlap == OverlapInit /\ [][OverlapNext]_vars

\* C32: with q and d the lemma sets of query and description and core the core
\* product terms: if q holds a core term and shares none with d, the overlap
\* score is 0; if it shares one, the score is 0.8 * shared core / query core
\* + 0.2 * shared non-core / max(1, query non-core); if q holds no core term, it
\* is shared / max(1, |q|).  Scores are in ten-thousandths, exact up to the
\* rounding of each quotient.
OverlapHardGate ==
  s_pc = "done" =>
    LET q == Range(Split(s_in.query_lemmas_joined))
        d == Range(Split(s_in.desc_lemmas_joined))
        qcore == Cardinality(q \cap product_terms)
        qrest == Max(1, Cardinality(q \ product_terms))
        shcore == Cardinality(q \cap d \cap product_terms)
        shrest == Cardinality((q \cap d) \ product_terms)
        qall == Max(1, Cardinality(q))
    IN /\ (qcore > 0 /\ shcore = 0) => s_out = 0
       /\ (qcore > 0 /\ shcore > 0) =>
            LET exact == 8000 * shcore * qrest + 2000 * shrest * qcore
                scaled == s_out * qcore * qrest
            IN scaled <= exact /\ exact < scaled + 2 * qcore * qrest
       /\ qcore = 0 =>
            LET exact == 10000 * Cardinality(q \cap d)
                scaled == s_out * qall
            IN scaled <= exact /\ exact < scaled + qall

\* the gate at work: the query names a product and a descriptor, the description
\* shares the descriptor only, and the score is 0
GateClosed ==
  /\ s_pc = "done"
  /\ s_in.query_lemmas_joined = <<"pomidor", SP, "svezh">>
  /\ s_in.desc_lemmas_joined = <<"ogurets", SP, "svezh">>
  /\ s_out = 0

\* ------------------------------------------------------------------------
\* search_by_sentence_words on arbitrary queries
\* ------------------------------------------------------------------------
RECURSIVE CountWords(_, _, _)
\* lines 1452-1464: the loop over the words, every repository call answering
CountWords(repoRows, words, counts) ==
  IF words = <<>> THEN counts
  ELSE CountWords(repoRows, Tail(words),
                  CountWordResults(counts, search_classifier_db(repoRows, <<Head(words)>>, 20)))

\* lines 1439-1467
search_by_sentence_words(repoRows, query, limit) ==
  LET words == SentenceWords(query)
  IN IF words = <<>> THEN <<>>
     ELSE Take(SortByCount(CountWords(repoRows, words, <<>>), <<>>), limit)

KeywordWords == {"steklo", "listovoe", "tomaty", "svezhie", "stalj", "xyz", "v"}

MaxKeywordWords == 3

KeywordQueries ==
  UNION {{Join(ws) : ws \in [1..n -> KeywordWords]} : n \in 1..MaxKeywordWords}

KeywordLimits == {1, 2, 5}

KeywordRepos == {{RowTomato, RowGlass, RowPolimer, RowSteel}, {RowTomato, RowGlass}}

KeywordInit ==
  /\ repo \in KeywordRepos
  /\ predictor = NewPredictor
  /\ embedding = "sharp"
  /\ search_cache = <<>>
  /\ last_cache_cleanup = 0
  /\ now = 0
  /\ req = [t \in Tasks |-> IdleReq]
  /\ calls = 0
  /\ loads = 0
  /\ builds = 0
  /\ faults = 0
  /\ stale = FALSE
  /\ prev = Nothing
  /\ answers = {}
  /\ f_results = <<>>
  /\ f_query = <<>>
  /\ f_out = <<>>
  /\ f_pc = "off"
  /\ s_in \in [query : KeywordQueries, limit : KeywordLimits]
  /\ s_out = <<>>
  /\ s_pc = "ready"
  /\ RecoveryOff
  /\ MainOff

\* a caller applies search_by_sentence_words(query, limit)
KeywordApply ==
  /\ s_pc = "ready"
  /\ s_out' = search_by_sentence_words(repo, s_in.query, s_in.limit)
  /\ s_pc' = "done"
  /\ UNCHANGED <<engineVars, filterVars, s_in, recoveryVars, mainVars>>

KeywordNext == KeywordApply

SpecKeyword == KeywordInit /\ [][KeywordNext]_vars

\* the tokens of the query that are longer than two characters
LongTokens(query) ==
  LET tokens == Split(normalize_text(query))
  IN SelectSeq(tokens, LAMBDA w : WordLen(w) > 2)

RECURSIVE RowsWithCode(_, _, _)
\* the number of rows with that code over one repository search per token
RowsWithCode(repoRows, tokens, code) ==
  IF tokens = <<>> THEN 0
  ELSE LET rows == search_classifier_db(repoRows, <<Head(tokens)>>, 20)
       IN Cardinality({j \in 1..Len(rows) : rows[j].code = code})
          + RowsWithCode(repoRows, Tail(tokens), code)

MaxMatches == 7

\* scores around the thresholds 0.10, 0.30, 0.55, 0.70 and 0.85
MatchScores == {999, 1000, 2999, 3000, 5499, 5500, 7000, 8500}

RECURSIVE DescendingScores(_, _)
\* the lists of n scores, greatest first, none above top
DescendingScores(n, top) ==
  IF n = 0 THEN {<<>>}
  ELSE UNION {{<<v>> \o rest : rest \in DescendingScores(n - 1, v)} :
                v \in {x \in MatchScores : x <= top}}

\* the i-th candidate: codes differ, as after the deduplication of line 1102
MatchCode(i) == Code4("0", "7", "0", CHOOSE c \in Digit : DigitVal(c) = i)

RankedMatches(scores) ==
  [i \in 1..Len(scores) |->
     [Cand(MatchCode(i), <<"tomaty", SP, "svezhie">>, scores[i], "hybrid")
        EXCEPT !.validated = "true", !.description_source = "database"]]

ResponseInit ==
  /\ repo = AllRows
  /\ predictor = NewPredictor
  /\ embedding = "sharp"
  /\ search_cache = <<>>
  /\ last_cache_cleanup = 0
  /\ now = 0
  /\ req = [t \in Tasks |-> IdleReq]
  /\ calls = 0
  /\ loads = 0
  /\ builds = 0
  /\ faults = 0
  /\ stale = FALSE
  /\ prev = Nothing
  /\ answers = {}
  /\ f_results = <<>>
  /\ f_query = <<>>
  /\ f_out = <<>>
  /\ f_pc = "off"
  /\ s_in \in {RankedMatches(scores) :
                 scores \in UNION {DescendingScores(n, 10000) : n \in 0..MaxMatches}}
  /\ s_out = <<>>
  /\ s_pc = "ready"
  /\ RecoveryOff
  /\ MainOff

\* enhanced_predict_code lines 1117-1181 for the ranked, enriched candidates
ResponseApply ==
  /\ s_pc = "ready"
  /\ s_out' = BuildResponse(s_in, <<"pomidory">>)
  /\ s_pc' = "done"
  /\ UNCHANGED <<engineVars, filterVars, s_in, recoveryVars, mainVars>>

ResponseNext == ResponseApply

SpecResponse == ResponseInit /\ [][ResponseNext]_vars

MatchStatuses == {"high_confidence", "medium_confidence", "low_confidence"}

WellFormed(resp) ==
  /\ (resp.best_match # <<>>) <=> (resp.status \in MatchStatuses)
  /\ resp.status \in MatchStatuses =>
       /\ Len(resp.best_match) = 1
       /\ resp.confidence = resp.best_match[1].relevance_score
       /\ resp.confidence >= SCORE_THRESHOLD_BEST_MATCH
       /\ Len(resp.top_similar) <= TOP_K_BEST_MATCH_SIMILAR
       /\ \A i \in 1..Len(resp.top_similar) :
            /\ resp.top_similar[i].relevance_score >= SCORE_THRESHOLD_TOP_SIMILAR
            /\ resp.top_similar[i].code # resp.best_match[1].code
  /\ resp.status = "not_found_with_suggestions" =>
       /\ resp.best_match = <<>>
       /\ resp.confidence = 0
       /\ Len(resp.top_similar) >= 1
       /\ Len(resp.top_similar) <= TOP_K_NOT_FOUND_SUGGESTIONS
       /\ \A i \in 1..Len(resp.top_similar) :
            resp.top_similar[i].relevance_score >= MIN_RELEVANCE_FOR_ANY_MATCH
  /\ resp.status = "not_found" => resp.best_match = <<>> /\ resp.top_similar = <<>>

\* C34: every response of enhanced_predict_code is well-formed: best_match is
\* present exactly for the statuses high, medium and low confidence, and then
\* confidence is its score, at least 0.55, with at most 4 similar entries of
\* score at least 0.3 and of another code; with suggestions there is no
\* best_match, confidence is 0 and there are 1 to 6 entries of score at least
\* 0.10; not_found has neither.
ResponseWellFormed ==
  /\ s_pc = "done" => WellFormed(s_out)
  /\ \A t \in Tasks : req[t].enh # Nothing => WellFormed(req[t].enh[1])

\* the caps at work: a match with four similar entries out of seven candidates
SimilarCapped ==
  /\ s_pc = "done"
  /\ Len(s_in) = 7
  /\ s_out.status = "low_confidence"
  /\ Len(s_out.top_similar) = 4
  /\ \A i \in 1..7 : s_in[i].relevance_score >= SCORE_THRESHOLD_TOP_SIMILAR

\* C35: whenever the engine is flagged initialized, the catalog is loaded and
\* non-empty, the semantic index exists and holds vectors, and the lexical
\* vectorizer is fitted and its matrix exists.
InitializedImpliesUsable ==
  predictor.initialized =>
    /\ predictor.df_system # Nothing
    /\ Len(predictor.df_system[1]) > 0
    /\ predictor.index # Nothing
    /\ Len(predictor.index[1]) = Len(predictor.df_system[1])
    /\ predictor.tfidf_vectorizer = "fitted"
    /\ predictor.tfidf_matrix # Nothing

RECURSIVE IsSubsequence(_, _)
\* a is b with some elements left out
IsSubsequence(a, b) ==
  IF a = <<>> THEN TRUE
  ELSE IF b = <<>> THEN FALSE
  ELSE IF Head(a) = Head(b) THEN IsSubsequence(Tail(a), Tail(b))
  ELSE IsSubsequence(a, Tail(b))

\* C36: once the filter was applied, its output is a subsequence of its input
\* (the same results in the same relative order, none added or repeated), it is
\* no longer than the input, and it is the input itself when no category is
\* detected in the query.
FilterIsSelection ==
  f_pc = "done" =>
    /\ IsSubsequence(f_out, f_results)
    /\ Len(f_out) <= Len(f_results)
    /\ detect_query_category(f_query) = None => f_out = f_results

\* the relaxed pass took a result out of the middle of the list and kept the
\* order of the others
MiddleResultFiltered ==
  /\ f_pc = "done"
  /\ detect_query_category(f_query) = "glass"
  /\ Len(f_results) = 3
  /\ Len(f_out) = 2
  /\ f_out[1] = f_results[1]
  /\ f_out[2] = f_results[3]
  /\ f_out[1] # f_out[2]

\* ------------------------------------------------------------------------
\* Searches over a repository with more matching rows than the handler asks for
\* ------------------------------------------------------------------------
\* seven sheet-glass rows, and seven sheet-steel rows with codes of six digits
LimitRows ==
  {[code |-> Code4("7", "0", "0", d), description |-> <<"steklo", SP, "listovoe">>] :
     d \in {"1", "2", "3", "4", "5", "6", "7"}}
  \cup {[code |-> <<"7", "2", "0", "8", "1", d>>, description |-> <<"stalj", SP, "listovoe">>] :
          d \in {"1", "2", "3", "4", "5", "6", "7"}}

LimitEnv ==
  [tasks |-> {"t1"},
   inputs |-> {<<<<"listovoe">>, "ru">>, <<<<"steklo", SP, "listovoe">>, "ru">>,
               <<<<"xyz", SP, "listovoe">>, "ru">>, <<<<"xyz">>, "ru">>,
               <<<<"stalj">>, "ru">>},
   calls |-> MaxExpandCalls, faults |-> MaxFaults]

LimitInit ==
  /\ repo = LimitRows
  /\ predictor = NewPredictor
  /\ embedding \in EmbeddingModels
  /\ search_cache = <<>>
  /\ last_cache_cleanup = 0
  /\ now = 0
  /\ req = [t \in Tasks |-> IdleReq]
  /\ calls = 0
  /\ loads = 0
  /\ builds = 0
  /\ faults = 0
  /\ stale = FALSE
  /\ prev = Nothing
  /\ answers = {}
  /\ f_results = <<>>
  /\ f_query = <<>>
  /\ f_out = <<>>
  /\ f_pc = "off"
  /\ s_in = <<>>
  /\ s_out = <<>>
  /\ s_pc = "off"
  /\ RecoveryOff
  /\ MainOff

NextLimit ==
  \/ \E t \in LimitEnv.tasks : Start(t, LimitEnv)
  \/ \E t \in LimitEnv.tasks : LoadDone(t, LimitEnv)
  \/ \E t \in LimitEnv.tasks : CloseDone(t, LimitEnv)
  \/ \E t \in LimitEnv.tasks : EnrichStep(t, LimitEnv)
  \/ \E t \in LimitEnv.tasks : Db4Step(t, LimitEnv)
  \/ \E t \in LimitEnv.tasks : Db4Fallback(t, LimitEnv)
  \/ \E t \in LimitEnv.tasks : Db5Step(t, LimitEnv)
  \/ \E t \in LimitEnv.tasks : Db6Step(t, LimitEnv)

SpecLimit == LimitInit /\ [][NextLimit]_vars

\* C37: whatever stage answered, the results list smart_search returns has at
\* most limit entries.
ResultLimit ==
  \A t \in Tasks :
    req[t].result # Nothing => Len(req[t].result[1].results) <= HandlerLimit

\* a stage found more rows than the limit and the answer holds exactly limit
CutAtLimit(stage) ==
  \E t \in Tasks :
    /\ req[t].result # Nothing
    /\ Len(req[t].result[1].results) = HandlerLimit
    /\ \E i \in 1..Len(req[t].trace) :
         req[t].trace[i].stage = stage /\ req[t].trace[i].yield > HandlerLimit

RepositoryAnswerCut == CutAtLimit("category_db")

SegmentAnswerCut == CutAtLimit("segment")

KeywordAnswerCut ==
  \E t \in Tasks :
    /\ req[t].result # Nothing
    /\ req[t].result[1].source = "keyword_fallback_filtered"
    /\ Len(req[t].result[1].results) = HandlerLimit

\* ------------------------------------------------------------------------
\* utils/error_recovery.py: the ErrorRecoveryManager global instance and the
\* asyncio tasks that call it (bot.py lines 271, 276 and 439).  The event
\* loop runs one task at a time, so every action is the code of one task
\* from one await to the next.
\* ------------------------------------------------------------------------

\* the search engine when the process only recovers or restarts
SearchOff ==
  /\ repo = AllRows
  /\ predictor = NewPredictor
  /\ embedding = "sharp"
  /\ search_cache = <<>>
  /\ last_cache_cleanup = 0
  /\ now = 0
  /\ req = [t \in Tasks |-> IdleReq]
  /\ calls = 0
  /\ loads = 0
  /\ builds = 0
  /\ faults = 0
  /\ stale = FALSE
  /\ prev = Nothing
  /\ answers = {}
  /\ f_results = <<>>
  /\ f_query = <<>>
  /\ f_out = <<>>
  /\ f_pc = "off"
  /\ s_in = <<>>
  /\ s_out = <<>>
  /\ s_pc = "off"

\* __init__ lines 30-31
MAX_CONSECUTIVE_ERRORS == 5

TIMEOUT_THRESHOLD == 10

RecoveryTasks == {"r1", "r2", "r3"}

\* calls one task makes to the manager
MaxRecoveryCalls == 2

RecoveryOps == {"handle_network_timeout", "handle_connection_error", "perform_recovery"}

\* __init__ lines 20-25; timeout_count is never reset by a successful
\* operation, so a manager with nine earlier timeouts and no consecutive
\* error is a state of a running bot
NewManager(timeouts) ==
  [ recovery_in_progress |-> FALSE,
    error_count          |-> 0,
    timeout_count        |-> timeouts,
    consecutive_errors   |-> 0 ]

\* a task the loop has not created yet
UnbornTask ==
  [ pc      |-> "unborn",
    calls   |-> 0,
    result  |-> None,
    cancel  |-> FALSE,      \* Task.cancel() was called, CancelledError not yet thrown in
    waits   |-> {},         \* the tasks its asyncio.gather awaits
    skipped |-> FALSE ]     \* its latest call returned at line 117

\* should_perform_aggressive_recovery lines 70-89; recent says whether
\* last_error_time is less than an hour old, memory_high whether
\* get_memory_usage_mb() exceeds MEMORY_THRESHOLD_MB
should_perform_aggressive_recovery(m, recent, memory_high) ==
  LET recent_timeouts == IF recent THEN m.timeout_count ELSE 0
      errors_trigger == m.consecutive_errors >= MAX_CONSECUTIVE_ERRORS
      timeouts_trigger == recent_timeouts >= TIMEOUT_THRESHOLD
  IN  errors_trigger \/ timeouts_trigger \/ memory_high

\* reset_error_counters lines 245-250
reset_error_counters(m) ==
  [m EXCEPT !.consecutive_errors = 0, !.timeout_count = 0, !.error_count = 0]

\* a recovery that takes the flag whether or not it is already taken
EnterWithoutTest(m) ==
  [ skip |-> FALSE, m |-> [m EXCEPT !.recovery_in_progress = TRUE] ]

\* perform_aggressive_recovery lines 115-121: the test and the assignment
\* of recovery_in_progress, with no await between them
AggressiveEnter(m) ==
  IF m.recovery_in_progress
    THEN [ skip |-> TRUE, m |-> m ]
    ELSE [ skip |-> FALSE, m |-> [m EXCEPT !.recovery_in_progress = TRUE] ]

\* perform_aggressive_recovery lines 152-153: the finally clause
AggressiveFinally(m) ==
  [m EXCEPT !.recovery_in_progress = FALSE]

\* asyncio.all_tasks() without the current task and the finished ones
\* (lines 181-182)
OtherLiveTasks(t) ==
  {u \in RecoveryTasks \ {t} : r_task[u].pc \notin {"unborn", "done"}}

\* cancel_hanging_tasks lines 155-177: no task carries _created_at and
\* nothing is ever added to active_tasks, so hanging_tasks is empty and
\* the function neither cancels nor awaits
cancel_hanging_tasks(t) == {}

\* the counters of handle_network_timeout (lines 46-47) and of
\* handle_connection_error (lines 61-62); perform_recovery counts nothing
CountError(m, op) ==
  CASE op = "handle_network_timeout" ->
         [m EXCEPT !.timeout_count = @ + 1, !.consecutive_errors = @ + 1]
    [] op = "handle_connection_error" ->
         [m EXCEPT !.error_count = @ + 1, !.consecutive_errors = @ + 1]
    [] OTHER -> m

\* perform_aggressive_recovery from its first line to its first await:
\* the skip at lines 115-117, or the flag and cancel_all_tasks (lines
\* 179-194); with no other task there is no gather to await and the code
\* runs on to the sleep of line 143
AggressiveStart(t, m) ==
  LET e == AggressiveEnter(m)
      others == OtherLiveTasks(t)
  IN  IF e.skip
        THEN /\ recovery_manager' = e.m
             /\ r_task' = [r_task EXCEPT ![t] =
                             [@ EXCEPT !.calls = @ + 1, !.result = FALSE, !.skipped = TRUE]]
        ELSE IF others = {}
          THEN /\ recovery_manager' = reset_error_counters(e.m)
               /\ r_task' = [r_task EXCEPT ![t] =
                               [@ EXCEPT !.pc = "aggr_sleep", !.calls = @ + 1,
                                         !.result = None, !.skipped = FALSE]]
          ELSE /\ recovery_manager' = e.m
               /\ r_task' = [u \in RecoveryTasks |->
                               IF u = t
                                 THEN [r_task[u] EXCEPT !.pc = "aggr_gather", !.calls = @ + 1,
                                                        !.result = None, !.skipped = FALSE,
                                                        !.waits = others]
                                 ELSE IF u \in others
                                   THEN [r_task[u] EXCEPT !.cancel = TRUE]
                                   ELSE r_task[u]]

\* perform_standard_recovery lines 91-104, up to its sleep
StandardStart(t, m) ==
  /\ recovery_manager' = m
  /\ r_task' = [u \in RecoveryTasks |->
                  IF u = t
                    THEN [r_task[u] EXCEPT !.pc = "std_sleep", !.calls = @ + 1,
                                           !.result = None, !.skipped = FALSE]
                    ELSE IF u \in cancel_hanging_tasks(t)
                      THEN [r_task[u] EXCEPT !.cancel = TRUE]
                      ELSE r_task[u]]

RecoveryInit ==
  /\ SearchOff
  /\ MainOff
  /\ recovery_manager \in {NewManager(0), NewManager(TIMEOUT_THRESHOLD - 1)}
  /\ r_task = [t \in RecoveryTasks |-> UnbornTask]

\* asyncio.create_task: the dispatcher starts a task
SpawnTask(t) ==
  /\ r_task[t].pc = "unborn"
  /\ r_task' = [r_task EXCEPT ![t].pc = "idle"]
  /\ UNCHANGED <<engineVars, filterVars, scoreVars, mainVars, recovery_manager>>

\* a task calls handle_network_timeout (lines 44-57), handle_connection_error
\* (lines 59-68) or perform_recovery (lines 284-289)
RecoveryCall(t) ==
  /\ r_task[t].pc = "idle"
  /\ ~r_task[t].cancel
  /\ r_task[t].calls < MaxRecoveryCalls
  /\ \E op \in RecoveryOps, recent \in BOOLEAN, memory_high \in BOOLEAN :
       LET m == CountError(recovery_manager, op)
           fresh == IF op = "handle_network_timeout" THEN TRUE ELSE recent
       IN  IF /\ op # "handle_connection_error"
              /\ should_perform_aggressive_recovery(m, fresh, memory_high)
             THEN AggressiveStart(t, m)
             ELSE StandardStart(t, m)
  /\ UNCHANGED <<engineVars, filterVars, scoreVars, mainVars>>

\* on_successful_operation lines 259-263
OnSuccessfulOperation(t) ==
  /\ r_task[t].pc = "idle"
  /\ ~r_task[t].cancel
  /\ recovery_manager.consecutive_errors > 0
  /\ recovery_manager' = [recovery_manager EXCEPT !.consecutive_errors = 0]
  /\ UNCHANGED <<engineVars, filterVars, scoreVars, mainVars, r_task>>

\* the gather of line 192 returns once every cancelled task has finished;
\* the steps 2 to 5 follow (lines 131-140), or an exception ends the
\* recovery through lines 149-153
AggressiveGathered(t) ==
  /\ r_task[t].pc = "aggr_gather"
  /\ ~r_task[t].cancel
  /\ \A u \in r_task[t].waits : r_task[u].pc = "done"
  /\ \E raised \in BOOLEAN :
       IF raised
         THEN /\ recovery_manager' = AggressiveFinally(recovery_manager)
              /\ r_task' = [r_task EXCEPT ![t] =
                              [@ EXCEPT !.pc = "idle", !.result = FALSE, !.waits = {}]]
         ELSE /\ recovery_manager' = reset_error_counters(recovery_manager)
              /\ r_task' = [r_task EXCEPT ![t] =
                              [@ EXCEPT !.pc = "aggr_sleep", !.waits = {}]]
  /\ UNCHANGED <<engineVars, filterVars, scoreVars, mainVars>>

\* the sleep of line 143 returns: True at line 147, or False at line 151,
\* and the finally clause either way
AggressiveSlept(t) ==
  /\ r_task[t].pc = "aggr_sleep"
  /\ ~r_task[t].cancel
  /\ \E raised \in BOOLEAN :
       /\ recovery_manager' = AggressiveFinally(recovery_manager)
       /\ r_task' = [r_task EXCEPT ![t] = [@ EXCEPT !.pc = "idle", !.result = ~raised]]
  /\ UNCHANGED <<engineVars, filterVars, scoreVars, mainVars>>

\* the sleep of line 104 returns: True at line 107 or False at line 111
StandardSlept(t) ==
  /\ r_task[t].pc = "std_sleep"
  /\ ~r_task[t].cancel
  /\ \E raised \in BOOLEAN :
       r_task' = [r_task EXCEPT ![t] = [@ EXCEPT !.pc = "idle", !.result = ~raised]]
  /\ UNCHANGED <<engineVars, filterVars, scoreVars, mainVars, recovery_manager>>

\* Task.cancel() from outside the manager (the dispatcher shutting down)
ExternalCancel(t) ==
  /\ r_task[t].pc \notin {"unborn", "done"}
  /\ ~r_task[t].cancel
  /\ r_task' = [r_task EXCEPT ![t].cancel = TRUE]
  /\ UNCHANGED <<engineVars, filterVars, scoreVars, mainVars, recovery_manager>>

\* the loop throws CancelledError into the task at its await: no
\* "except Exception" catches it, the finally clause of lines 152-153
\* runs when the task is inside the aggressive recovery, and the task ends
DeliverCancel(t) ==
  /\ r_task[t].cancel
  /\ r_task[t].pc \notin {"unborn", "done"}
  /\ recovery_manager' = IF r_task[t].pc \in {"aggr_gather", "aggr_sleep"}
                           THEN AggressiveFinally(recovery_manager)
                           ELSE recovery_manager
  /\ r_task' = [r_task EXCEPT ![t] =
                  [@ EXCEPT !.pc = "done", !.result = "cancelled", !.waits = {},
                            !.cancel = FALSE, !.skipped = FALSE]]
  /\ UNCHANGED <<engineVars, filterVars, scoreVars, mainVars>>

NextRecovery ==
  \/ \E t \in RecoveryTasks : SpawnTask(t)
  \/ \E t \in RecoveryTasks : RecoveryCall(t)
  \/ \E t \in RecoveryTasks : OnSuccessfulOperation(t)
  \/ \E t \in RecoveryTasks : AggressiveGathered(t)
  \/ \E t \in RecoveryTasks : AggressiveSlept(t)
  \/ \E t \in RecoveryTasks : StandardSlept(t)
  \/ \E t \in RecoveryTasks : ExternalCancel(t)
  \/ \E t \in RecoveryTasks : DeliverCancel(t)

SpecRecovery == RecoveryInit /\ [][NextRecovery]_vars

\* the tasks inside the try block of perform_aggressive_recovery
ExecutingAggressive ==
  {t \in RecoveryTasks : r_task[t].pc \in {"aggr_gather", "aggr_sleep"}}

\* C38: at most one task executes the aggressive recovery at a time; a call
\* that reaches it while another task executes it has returned False and is
\* not executing it; recovery_in_progress is true exactly while some task
\* executes it, so it is false after a recovery that completed, failed or
\* was cancelled
RecoveryMutualExclusion ==
  /\ Cardinality(ExecutingAggressive) <= 1
  /\ recovery_manager.recovery_in_progress <=> (ExecutingAggressive # {})
  /\ \A t \in RecoveryTasks :
       r_task[t].skipped => (r_task[t].result = FALSE /\ t \notin ExecutingAggressive)

\* one task sleeps inside the aggressive recovery and the call of a second
\* task was turned away in the meantime
RecoveryRefused ==
  \E t, u \in RecoveryTasks :
    /\ t # u
    /\ r_task[t].pc = "aggr_sleep"
    /\ r_task[u].skipped
    /\ r_task[u].result = FALSE
    /\ r_task[u].pc = "idle"
    /\ recovery_manager.recovery_in_progress

\* ------------------------------------------------------------------------
\* main.py: start_polling_with_retry and the check_bot_health tasks it
\* creates, which share the module global restart_count.  One action is the
\* code of one coroutine from one await to the next.
\* ------------------------------------------------------------------------

\* main.py line 45
MAX_RESTART_ATTEMPTS == 5

\* calls of dp.start_polling the model follows
MaxStarts == 7

\* the coroutine before main awaits it (line 165)
NewPolling ==
  [ pc     |-> "start",
    starts |-> 0 ]       \* history: calls of dp.start_polling so far

\* the loop test of line 94 and the body up to the await of line 102: a
\* new check_bot_health task (line 99), which first awaits bot.get_me(),
\* and the call of dp.start_polling; with the test false, the cleanup of
\* line 153
LoopTest ==
  IF restart_count < MAX_RESTART_ATTEMPTS
    THEN /\ polling' = [pc |-> "polling", starts |-> polling.starts + 1]
         /\ health_tasks' = Append(health_tasks, "get_me")
    ELSE /\ polling' = [polling EXCEPT !.pc = "shutdown"]
         /\ health_tasks' = health_tasks

RestartInit ==
  /\ SearchOff
  /\ RecoveryOff
  /\ restart_count = 0
  /\ polling = NewPolling
  /\ health_tasks = <<>>

\* main awaits start_polling_with_retry (line 165)
EnterPolling ==
  /\ polling.pc = "start"
  /\ LoopTest
  /\ UNCHANGED <<engineVars, filterVars, scoreVars, recoveryVars, restart_count>>

\* dp.start_polling raises (lines 116-150): the counter goes up, and the
\* loop either sleeps RESTART_DELAY or breaks
PollingRaised ==
  /\ polling.pc = "polling"
  /\ restart_count' = restart_count + 1
  /\ polling' = [polling EXCEPT !.pc = IF restart_count' < MAX_RESTART_ATTEMPTS
                                         THEN "delay" ELSE "shutdown"]
  /\ UNCHANGED <<engineVars, filterVars, scoreVars, recoveryVars, health_tasks>>

\* the sleep of line 122 returns: a new session and bot (lines 125-145),
\* continue, and the loop test again
RestartDelayDone ==
  /\ polling.pc = "delay"
  /\ polling.starts < MaxStarts
  /\ LoopTest
  /\ UNCHANGED <<engineVars, filterVars, scoreVars, recoveryVars, restart_count>>

\* dp.start_polling returns without an exception (handle_signals=True: a
\* stop signal ends the polling): no except clause runs, nothing breaks
\* the loop, and the loop test follows
PollingReturned ==
  /\ polling.pc = "polling"
  /\ polling.starts < MaxStarts
  /\ LoopTest
  /\ UNCHANGED <<engineVars, filterVars, scoreVars, recoveryVars, restart_count>>

\* KeyboardInterrupt out of dp.start_polling (lines 112-114)
PollingInterrupted ==
  /\ polling.pc = "polling"
  /\ polling' = [polling EXCEPT !.pc = "shutdown"]
  /\ UNCHANGED <<engineVars, filterVars, scoreVars, recoveryVars, restart_count, health_tasks>>

\* graceful_shutdown (lines 49-62, 153); asyncio.run then cancels the
\* health tasks
GracefulShutdown ==
  /\ polling.pc = "shutdown"
  /\ polling' = [polling EXCEPT !.pc = "exited"]
  /\ UNCHANGED <<engineVars, filterVars, scoreVars, recoveryVars, restart_count, health_tasks>>

\* check_bot_health lines 71-73 and 88: bot.get_me() answers, the counter
\* is reset, the task sleeps five minutes
HealthPassed(i) ==
  /\ polling.pc \notin {"start", "exited"}
  /\ health_tasks[i] = "get_me"
  /\ restart_count' = 0
  /\ health_tasks' = [health_tasks EXCEPT ![i] = "sleep"]
  /\ UNCHANGED <<engineVars, filterVars, scoreVars, recoveryVars, polling>>

\* check_bot_health lines 75-85: bot.get_me() raises; below the bound the
\* counter goes up and the task sleeps RESTART_DELAY, at the bound
\* sys.exit(1) ends the process
HealthFailed(i) ==
  /\ polling.pc \notin {"start", "exited"}
  /\ health_tasks[i] = "get_me"
  /\ IF restart_count < MAX_RESTART_ATTEMPTS
       THEN /\ restart_count' = restart_count + 1
            /\ health_tasks' = [health_tasks EXCEPT ![i] = "sleep"]
            /\ polling' = polling
       ELSE /\ restart_count' = restart_count
            /\ health_tasks' = health_tasks
            /\ polling' = [polling EXCEPT !.pc = "exited"]
  /\ UNCHANGED <<engineVars, filterVars, scoreVars, recoveryVars>>

\* the sleep of line 81 or of line 88 returns and the loop of line 68
\* comes round
HealthWake(i) ==
  /\ polling.pc \notin {"start", "exited"}
  /\ health_tasks[i] = "sleep"
  /\ health_tasks' = [health_tasks EXCEPT ![i] = "get_me"]
  /\ UNCHANGED <<engineVars, filterVars, scoreVars, recoveryVars, polling, restart_count>>

NextRestart ==
  \/ EnterPolling
  \/ PollingRaised
  \/ RestartDelayDone
  \/ PollingReturned
  \/ PollingInterrupted
  \/ GracefulShutdown
  \/ \E i \in 1..Len(health_tasks) : HealthPassed(i)
  \/ \E i \in 1..Len(health_tasks) : HealthFailed(i)
  \/ \E i \in 1..Len(health_tasks) : HealthWake(i)

SpecRestart == RestartInit /\ [][NextRestart]_vars

\* C39: over the life of the process dp.start_polling is called again, after
\* its first call, at most MAX_RESTART_ATTEMPTS times
BoundedRestarts ==
  polling.starts <= MAX_RESTART_ATTEMPTS + 1

====
